---- MODULE Spec2Model ----
(***************************************************************************)
(* ReliScore daily scoring pipeline.                                       *)
(*                                                                         *)
(* Modelled code:                                                          *)
(*   services/api/src/modules/scoring/scoring.service.ts                   *)
(*       ScoringService.runScoringJob, applyOperationalBuckets,            *)
(*       operationalScoreForBucket, bucketDistribution                     *)
(*   services/api/src/modules/scoring/model-client.service.ts              *)
(*       ModelClientService.scoreBatch                                     *)
(*   services/api/prisma/seed.ts                                           *)
(*       callModelScoreBatchWithRetry, fallbackScores,                     *)
(*       seedFeaturesAndPredictions                                        *)
(*   services/api/src/modules/scoring/feature-engineering.ts               *)
(*       computeFeatureVector, metricFeatureSet, featureVectorFromRow,     *)
(*       generateFeaturesForDay                                            *)
(*   packages/shared/src/schemas.ts   scoreResponseSchema                  *)
(*                                                                         *)
(* Probabilities are integers in millionths (risk_score 0.95 is 950000):   *)
(* operationalScoreForBucket rounds to six decimals with toFixed(6), so    *)
(* every reconciled probability is a whole number of millionths.           *)
(***************************************************************************)
EXTENDS Integers, Sequences, FiniteSets, TLC

VARIABLES
    telemetry,      \* telemetryDaily rows, as <<driveId, day>> (immutable)
    featuresDaily,  \* featuresDaily rows, as <<driveId, day>>
    predictions,    \* prediction rows
    auditLog,       \* auditLog rows, in the order they were created
    runsStarted,    \* number of runs triggered so far
    pc,             \* per run: the state of the run
    dayArg,         \* per run: the day argument (NoDay when omitted)
    targetDay,      \* per run: dateOnly
    generated,      \* per run: generatedFeatures
    batchItems,     \* per run: the items sent to the scorer
    attempt,        \* per run: the attempt counter of the retry loop
    waited,         \* per run: the delays slept between attempts (ms)
    scores,         \* per run: what the scoring client returned
    scored,         \* per run: the batch that is persisted
    bucketMode,     \* per run: the reconciler's mode
    calls,          \* per run: POST /score_batch calls issued
    fallbackUsed,   \* per run: fallbackScores was invoked
    lastFailure,    \* per run: what the latest scoring attempt died of
    outcome,        \* per run: what the caller receives
    rcIn,           \* reconciler harness: the raw batch
    rcOut,          \* reconciler harness: applyOperationalBuckets(rcIn)
    feIn,           \* feature harness: one drive's telemetry and how it is stored
    feOut,          \* feature harness: the vectors and the request made of it
    fbIn,           \* fallback harness: the items given to fallbackScores
    fbOut           \* fallback harness: fallbackScores(fbIn)

pipelineVars ==
    <<telemetry, featuresDaily, predictions, auditLog, runsStarted, pc, dayArg,
      targetDay, generated, batchItems, attempt, waited, scores, scored,
      bucketMode, calls, fallbackUsed, lastFailure, outcome>>

reconVars ==
    <<rcIn, rcOut>>

featVars ==
    <<feIn, feOut>>

fallbackVars ==
    <<fbIn, fbOut>>

vars ==
    <<telemetry, featuresDaily, predictions, auditLog, runsStarted, pc, dayArg,
      targetDay, generated, batchItems, attempt, waited, scores, scored,
      bucketMode, calls, fallbackUsed, lastFailure, outcome, rcIn, rcOut,
      feIn, feOut, fbIn, fbOut>>

----------------------------------------------------------------------------
(* Arithmetic helpers *)

Min(a, b) ==
    IF a <= b THEN a ELSE b

Max(a, b) ==
    IF a >= b THEN a ELSE b

\* Math.ceil(n / d) for n >= 0, d > 0
CeilDiv(n, d) ==
    (n + d - 1) \div d

\* Number(x.toFixed(6)) on the exact quotient n / d of millionths (n >= 0):
\* the nearest millionth, a tie going up. No reconciled probability of a tier
\* of fewer than 33 items falls on a tie, so the exact quotient and the
\* double the code rounds agree for every batch the model draws.
RoundDiv(n, d) ==
    (2 * n + d) \div (2 * d)

SCALE ==
    1000000

RiskBuckets ==
    {"LOW", "MED", "HIGH"}

----------------------------------------------------------------------------
(* scoring.service.ts: the Bucket Reconciler *)

HIGH_MAX ==
    950000

HIGH_MIN ==
    750000

MED_MAX ==
    740000

MED_MIN ==
    400000

LOW_MAX ==
    390000

LOW_MIN ==
    20000

BucketMax(bucket) ==
    IF bucket = "HIGH" THEN HIGH_MAX
    ELSE IF bucket = "MED" THEN MED_MAX
    ELSE LOW_MAX

BucketMin(bucket) ==
    IF bucket = "HIGH" THEN HIGH_MIN
    ELSE IF bucket = "MED" THEN MED_MIN
    ELSE LOW_MIN

\* faulty variant, for sensitivity of the properties: the interpolation runs from min up to max
operationalScoreForBucket_Ascending(bucket, bucketPosition, bucketSize) ==
    LET clampedSize == Max(1, bucketSize)
        num == IF clampedSize = 1 THEN 1 ELSE bucketPosition
        den == IF clampedSize = 1 THEN 2 ELSE clampedSize - 1
    IN  RoundDiv(BucketMin(bucket) * den
                 + (BucketMax(bucket) - BucketMin(bucket)) * num, den)

\* t = clampedSize === 1 ? 0.5 : bucketPosition / (clampedSize - 1), kept as
\* the fraction num / den; the result is max - (max - min) * t
operationalScoreForBucket(bucket, bucketPosition, bucketSize) ==
    LET clampedSize == Max(1, bucketSize)
        num == IF clampedSize = 1 THEN 1 ELSE bucketPosition
        den == IF clampedSize = 1 THEN 2 ELSE clampedSize - 1
    IN  RoundDiv(BucketMax(bucket) * den
                 - (BucketMax(bucket) - BucketMin(bucket)) * num, den)

\* faulty variant, for sensitivity of the properties: only a HIGH item counts
hasMediumOrHigh_HighOnly(items) ==
    \E i \in 1..Len(items) : items[i].risk_bucket = "HIGH"

hasMediumOrHigh(items) ==
    \E i \in 1..Len(items) : items[i].risk_bucket \in {"MED", "HIGH"}

\* faulty variant, for sensitivity of the properties: ties are not broken by id
CompareRank_ScoreOnly(a, b) ==
    b.risk_score - a.risk_score

\* The comparator of the sort: negative when a sorts before b
\* (b.risk_score - a.risk_score, then a.drive_id.localeCompare(b.drive_id)).
\* Drive ids are numbered; the numbering is their collation order.
CompareRank(a, b) ==
    IF b.risk_score # a.risk_score
    THEN b.risk_score - a.risk_score
    ELSE a.drive_id - b.drive_id

\* Array.prototype.sort is stable: items that compare equal keep their order
Precedes(items, i, j) ==
    \/ CompareRank(items[i], items[j]) < 0
    \/ CompareRank(items[i], items[j]) = 0 /\ i < j

SortPosition(items, i) ==
    1 + Cardinality({j \in 1..Len(items) : Precedes(items, j, i)})

ordered(items) ==
    [k \in 1..Len(items) |->
        items[CHOOSE i \in 1..Len(items) : SortPosition(items, i) = k]]

highCount(total) ==
    IF total >= 20 THEN CeilDiv(total * 5, 100) ELSE Min(1, total)

\* faulty variant, for sensitivity of the properties: the share is rounded down
medCount_Floor(total) ==
    IF total >= 10
    THEN (total * 15) \div 100
    ELSE Min(1, Max(0, total - highCount(total)))

medCount(total) ==
    IF total >= 10
    THEN CeilDiv(total * 15, 100)
    ELSE Min(1, Max(0, total - highCount(total)))

\* faulty variant, for sensitivity of the properties: the reasons are dropped
nextScore_DropsReasons(item, index, total) ==
    [item EXCEPT !.risk_score = LOW_MAX, !.risk_bucket = "LOW", !.top_reasons = <<>>]

\* nextScores = ordered.map((item, index) => ...), index counted from 0
nextScore(item, index, total) ==
    LET hc == highCount(total)
        mc == medCount(total)
        riskBucket ==
            IF index < hc THEN "HIGH"
            ELSE IF index < hc + mc THEN "MED"
            ELSE "LOW"
        bucketPosition ==
            IF index < hc THEN index
            ELSE IF index < hc + mc THEN index - hc
            ELSE 0
        bucketSize ==
            IF index < hc THEN hc
            ELSE IF index < hc + mc THEN mc
            ELSE Max(1, total - hc - mc)
    IN  [item EXCEPT
            !.risk_score =
                operationalScoreForBucket(riskBucket, bucketPosition, bucketSize),
            !.risk_bucket = riskBucket]

applyOperationalBuckets(items) ==
    IF Len(items) = 0
    THEN [scored |-> <<>>, bucketMode |-> "model"]
    ELSE IF hasMediumOrHigh(items)
    THEN [scored |-> items, bucketMode |-> "model"]
    ELSE LET sorted == ordered(items)
             total == Len(sorted)
         IN  [scored |-> [k \in 1..total |-> nextScore(sorted[k], k - 1, total)],
              bucketMode |-> "rank_fallback"]

\* bucketDistribution(buckets)
bucketDistribution(items) ==
    [b \in RiskBuckets |->
        Cardinality({i \in 1..Len(items) : items[i].risk_bucket = b})]

----------------------------------------------------------------------------
(* The data of the pipeline *)

RunIds ==
    {1, 2}

\* drive ids, numbered in collation order ("DRV-0001" < "DRV-0002")
Drives ==
    {1, 2}

Days ==
    {1, 2}

\* runScoringJob(day?) with the day omitted
NoDay ==
    0

\* THIRTY_DAYS_MS, in days
LOOKBACK_DAYS ==
    30

HEURISTIC_VERSION ==
    "heuristic-seed-v1"

Idle(v) ==
    [r \in RunIds |-> v]

SetMax(S) ==
    CHOOSE x \in S : \A y \in S : y <= x

SetMin(S) ==
    CHOOSE x \in S : \A y \in S : x <= y

\* the telemetry tables the runs start from, as (drive, day) pairs; in the
\* last one drive 1 was first seen before the lookback of any day scored
TelemetryChoices ==
    { {}, {<<1, 2>>},
      {<<1, SetMin(Days) - LOOKBACK_DAYS - 1>>, <<1, 1>>, <<2, 2>>} }

\* the elements of a set of records, ascending by driveId (orderBy driveId asc)
RECURSIVE OrderByDriveId(_)
OrderByDriveId(S) ==
    IF S = {} THEN <<>>
    ELSE LET first == CHOOSE x \in S : \A y \in S : x.driveId <= y.driveId
         IN  <<first>> \o OrderByDriveId(S \ {first})

----------------------------------------------------------------------------
(* feature-engineering.ts, as far as the run reads it *)

\* telemetryDaily.findMany({ day: { gte: lowerBound, lte: dayStart } })
TelemetryInWindow(day) ==
    {t \in telemetry : t[2] >= day - LOOKBACK_DAYS /\ t[2] <= day}

\* computeFeatureVector: firstSeen is the first row of the window,
\* ageDays = max(0, floor((day - firstSeen) / one day))
ageDays(rows, day) ==
    Max(0, day - SetMin({t[2] : t \in rows}))

\* generateFeaturesForDay: one upsert, keyed (driveId, day), per drive that
\* has telemetry in the window
GeneratedRows(day) ==
    LET rows == TelemetryInWindow(day)
        driveIds == {t[1] : t \in rows}
    IN  { [driveId |-> d, day |-> day,
           ageDays |-> ageDays({t \in rows : t[1] = d}, day)] : d \in driveIds }

UpsertFeatures(store, rows) ==
    {f \in store : ~ \E g \in rows : g.driveId = f.driveId /\ g.day = f.day}
        \cup rows

\* featureRows.map(row => ({ drive_id, day, features: featureVectorFromRow(row) }))
BatchItemsOf(store, day) ==
    LET rows == OrderByDriveId({f \in store : f.day = day})
    IN  [i \in 1..Len(rows) |->
            [drive_id |-> rows[i].driveId, day |-> rows[i].day,
             features |-> [age_days |-> rows[i].ageDays]]]

----------------------------------------------------------------------------
(* schemas.ts: scoreResponseSchema *)

ScoreFields ==
    {"drive_id", "day", "risk_score", "risk_bucket", "top_reasons",
     "model_version", "scored_at"}

ReasonOk(reason) ==
    reason.direction \in {"UP", "DOWN"}

\* z.object({...}): every field present, risk_score in [0, 1], risk_bucket in
\* the enum, every reason's direction UP or DOWN
scoreResponseSchemaOk(item) ==
    /\ ScoreFields \subseteq DOMAIN item
    /\ item.risk_score >= 0
    /\ item.risk_score <= SCALE
    /\ item.risk_bucket \in RiskBuckets
    /\ \A k \in 1..Len(item.top_reasons) : ReasonOk(item.top_reasons[k])

\* z.array(scoreResponseSchema).parse(response.data) does not throw
scoreBatchResponseSchemaOk(data) ==
    \A i \in 1..Len(data) : scoreResponseSchemaOk(data[i])

----------------------------------------------------------------------------
(* The remote scorer: what a call can come back with *)

ReasonsA ==
    <<[code |-> "smart_197_raw_mean_7d", contribution |-> 120000, direction |-> "UP"]>>

ReasonsB ==
    <<[code |-> "temperature_mean_7d", contribution |-> 30000, direction |-> "DOWN"]>>

\* (model_version, top_reasons, day) of one response, the day of its items
\* counted from the day of the request
RemoteVariants ==
    { <<"v1", ReasonsA, 0>>, <<"v1", ReasonsB, 1>>, <<"v2", ReasonsA, 0>> }

\* the model the seed script finds deployed
SeedVariants ==
    { <<"v1", ReasonsA, 0>> }

RemoteScores ==
    {100000, 900000}

RemoteBuckets ==
    {"LOW", "HIGH"}

MaxResponseLen ==
    2

RemoteItems(day, variant) ==
    { [drive_id |-> d, day |-> day + variant[3], risk_score |-> s, risk_bucket |-> b,
       top_reasons |-> variant[2], model_version |-> variant[1], scored_at |-> 0] :
        d \in Drives, s \in RemoteScores, b \in RemoteBuckets }

\* the structurally valid bodies: any length up to MaxResponseLen, any drive
\* ids, whatever the request held
ValidResponses(day, variants) ==
    UNION { UNION { [1..n -> RemoteItems(day, variant)] : n \in 0..MaxResponseLen } :
            variant \in variants }

\* items that break the schema: risk_score above 1, below 0, a risk_bucket
\* outside the enum, a missing risk_bucket, a direction outside the enum
InvalidItems(day) ==
    LET good == [drive_id |-> 1, day |-> day, risk_score |-> 100000,
                 risk_bucket |-> "LOW", top_reasons |-> ReasonsA,
                 model_version |-> "v1", scored_at |-> 0]
    IN  { [good EXCEPT !.risk_score = SCALE + 500000],
          [good EXCEPT !.risk_score = -1],
          [good EXCEPT !.risk_bucket = "CRITICAL"],
          [drive_id |-> 1, day |-> day, risk_score |-> 100000,
           top_reasons |-> ReasonsA, model_version |-> "v1", scored_at |-> 0],
          [good EXCEPT !.top_reasons =
              <<[code |-> "age_days", contribution |-> 0, direction |-> "SIDEWAYS"]>>] }

InvalidResponses(day) ==
    { <<bad>> : bad \in InvalidItems(day) }
        \cup { <<[bad EXCEPT !.drive_id = 2, !.risk_score = 900000,
                        !.risk_bucket = "HIGH"], bad>> :
                 bad \in {x \in InvalidItems(day) : x.risk_score = -1} }

\* the outcome of client.post('/score_batch'): the call throws (timeout,
\* network error, 5xx) or resolves with a body
PostOutcomes(day, variants) ==
    { [kind |-> k, data |-> <<>>] : k \in {"timeout", "network", "http5xx"} }
        \cup { [kind |-> "body", data |-> d] :
                 d \in ValidResponses(day, variants) \cup InvalidResponses(day) }

\* what a failed call died of: the transport error, or the parse of the body
FailureOf(post) ==
    IF post.kind = "body" THEN "invalid_response" ELSE post.kind

\* the outcome of client.get('/model/info') followed by modelInfoSchema.parse
InfoOutcomes ==
    {"ok", "failed", "invalid"}

----------------------------------------------------------------------------
(* seed.ts: the fallback scorer *)

HIGH_THRESHOLD ==
    750000

MED_THRESHOLD ==
    400000

\* faulty variant, for sensitivity of the properties: MED starts at one half
bucketFromScore_MedFromHalf(score) ==
    IF score >= HIGH_THRESHOLD THEN "HIGH"
    ELSE IF score >= SCALE \div 2 THEN "MED"
    ELSE "LOW"

bucketFromScore(score) ==
    IF score >= HIGH_THRESHOLD THEN "HIGH"
    ELSE IF score >= MED_THRESHOLD THEN "MED"
    ELSE "LOW"

\* 1 / (1 + exp(-(0.015 * age - 3.2))) in millionths, for age = 0..30
SigmoidByAge ==
    <<39166, 39734, 40310, 40895, 41487, 42088, 42697, 43314, 43940, 44574,
      45217, 45870, 46530, 47201, 47880, 48568, 49266, 49973, 50690, 51417,
      52154, 52900, 53657, 54423, 55201, 55988, 56786, 57595, 58415, 59245,
      60087>>

\* 1 / (1 + exp(-value)) in millionths, at further values (in thousandths):
\* the double is 1 from about 37 on, and below a millionth under -14
SigmoidAt ==
    (-113200 :> 0) @@ (-410 :> 398912) @@ (-395 :> 402514) @@ (-250 :> 437823)
        @@ (-190 :> 452642) @@ (1090 :> 748382) @@ (1105 :> 751196)
        @@ (1710 :> 846836) @@ (216800 :> 1000000)

\* features.name ?? 0
FeatureOrZero(features, name) ==
    IF name \in DOMAIN features THEN features[name] ELSE 0

\* the linear term in thousandths. Of the seven features fallbackScores reads,
\* only age_days is a key of the vector featureVectorFromRow builds; each of
\* the other six is undefined there and `?? 0` makes it 0.
linear(features) ==
    15 * FeatureOrZero(features, "age_days")
        + 90 * FeatureOrZero(features, "smart_5_mean_7d")
        + 160 * FeatureOrZero(features, "smart_197_mean_7d")
        + 220 * FeatureOrZero(features, "smart_197_max_30d")
        + 110 * FeatureOrZero(features, "smart_198_delta_7d")
        + 70 * FeatureOrZero(features, "write_latency_mean_7d")
        + 300 * FeatureOrZero(features, "missing_smart_197_30d")
        - 3200

sigmoid(value) ==
    IF value \in DOMAIN SigmoidAt THEN SigmoidAt[value]
    ELSE SigmoidByAge[(value + 3200) \div 15 + 1]

clamp(value, lo, hi) ==
    Min(hi, Max(lo, value))

fallbackReasons(features) ==
    <<[code |-> "smart_197_max_30d",
       contribution |-> 220000 * FeatureOrZero(features, "smart_197_max_30d"),
       direction |-> "UP"],
      [code |-> "smart_197_mean_7d",
       contribution |-> 160000 * FeatureOrZero(features, "smart_197_mean_7d"),
       direction |-> "UP"],
      [code |-> "smart_5_mean_7d",
       contribution |-> 90000 * FeatureOrZero(features, "smart_5_mean_7d"),
       direction |-> "UP"],
      [code |-> "age_days",
       contribution |-> 15000 * FeatureOrZero(features, "age_days"),
       direction |-> "UP"],
      [code |-> "missing_smart_197_30d",
       contribution |-> 300000 * FeatureOrZero(features, "missing_smart_197_30d"),
       direction |-> "UP"]>>

fallbackScores(items) ==
    [i \in 1..Len(items) |->
        LET riskScore == clamp(sigmoid(linear(items[i].features)), 0, SCALE)
        IN  [drive_id |-> items[i].drive_id,
             day |-> items[i].day,
             risk_score |-> riskScore,
             risk_bucket |-> bucketFromScore(riskScore),
             top_reasons |-> fallbackReasons(items[i].features),
             model_version |-> HEURISTIC_VERSION,
             scored_at |-> 0]]

----------------------------------------------------------------------------
(* model-client.service.ts: ModelClientService.scoreBatch *)

Thrown ==
    [threw |-> TRUE, data |-> <<>>]

Returned(data) ==
    [threw |-> FALSE, data |-> data]

\* one GET /model/info, one POST /score_batch, the parse of its body; anything
\* that throws inside the try is rethrown as ServiceUnavailableException
scoreBatch(info, post) ==
    IF info # "ok" THEN Thrown
    ELSE IF post.kind # "body" THEN Thrown
    ELSE IF ~ scoreBatchResponseSchemaOk(post.data) THEN Thrown
    ELSE Returned(post.data)

----------------------------------------------------------------------------
(* seed.ts: callModelScoreBatchWithRetry *)

MAX_ATTEMPTS ==
    8

RETRY_BASE_DELAY_MS ==
    1500

\* the body of the try of one iteration of the loop
seedAttempt(post) ==
    IF post.kind # "body" THEN Thrown
    ELSE IF ~ scoreBatchResponseSchemaOk(post.data) THEN Thrown
    ELSE Returned(post.data)

----------------------------------------------------------------------------
(* The prediction table *)

PredictionKey(p) ==
    <<p.driveId, p.day, p.modelVersion>>

\* faulty variant, for sensitivity of the properties: a plain create, whatever the table holds
upsert_CreateOnly(store, score, day) ==
    store \cup { [driveId |-> score.drive_id,
                  day |-> day,
                  modelVersion |-> score.model_version,
                  riskScore |-> score.risk_score,
                  riskBucket |-> score.risk_bucket,
                  reasonCodes |-> score.top_reasons] }

\* faulty variant, for sensitivity of the properties: the row takes the day of the response item
upsert_UsesScoreDay(store, score, day) ==
    {p \in store : PredictionKey(p) # <<score.drive_id, score.day, score.model_version>>}
        \cup { [driveId |-> score.drive_id,
                 day |-> score.day,
                 modelVersion |-> score.model_version,
                 riskScore |-> score.risk_score,
                 riskBucket |-> score.risk_bucket,
                 reasonCodes |-> score.top_reasons] }

\* prisma.prediction.upsert({ where: { driveId_day_modelVersion }, create, update })
upsert(store, score, day) ==
    LET existing == {p \in store : PredictionKey(p) =
                        <<score.drive_id, day, score.model_version>>}
    IN  IF existing = {}
        THEN store \cup { [driveId |-> score.drive_id,
                           day |-> day,
                           modelVersion |-> score.model_version,
                           riskScore |-> score.risk_score,
                           riskBucket |-> score.risk_bucket,
                           reasonCodes |-> score.top_reasons] }
        ELSE (store \ existing) \cup
             { [p EXCEPT !.riskScore = score.risk_score,
                         !.riskBucket = score.risk_bucket,
                         !.reasonCodes = score.top_reasons] : p \in existing }

\* faulty variant, for sensitivity of the properties: only the first upsert of the batch takes effect
upsertAll_HeadOnly(store, batch, day) ==
    IF batch = <<>> THEN store
    ELSE upsert(store, Head(batch), day)

\* prisma.$transaction(scored.map(score => upsert(...))): the upserts of one
\* transaction, applied in the order of the batch
RECURSIVE upsertAll(_, _, _)
upsertAll(store, batch, day) ==
    IF batch = <<>> THEN store
    ELSE upsertAll(upsert(store, Head(batch), day), Tail(batch), day)

----------------------------------------------------------------------------
(* Runs *)

MaxRuns ==
    2

NoOutcome ==
    [status |-> "none", day |-> NoDay, reason |-> "", generatedFeatures |-> 0,
     storedPredictions |-> 0, modelVersion |-> "none", bucketMode |-> "none"]

Terminal ==
    {"DONE", "SKIPPED", "FAILED"}

\* the locals of run r as a call begins
ResetLocals(r) ==
    /\ targetDay' = [targetDay EXCEPT ![r] = NoDay]
    /\ generated' = [generated EXCEPT ![r] = 0]
    /\ batchItems' = [batchItems EXCEPT ![r] = <<>>]
    /\ attempt' = [attempt EXCEPT ![r] = 0]
    /\ waited' = [waited EXCEPT ![r] = <<>>]
    /\ scores' = [scores EXCEPT ![r] = <<>>]
    /\ scored' = [scored EXCEPT ![r] = <<>>]
    /\ bucketMode' = [bucketMode EXCEPT ![r] = "none"]
    /\ calls' = [calls EXCEPT ![r] = 0]
    /\ fallbackUsed' = [fallbackUsed EXCEPT ![r] = FALSE]
    /\ lastFailure' = [lastFailure EXCEPT ![r] = "none"]
    /\ outcome' = [outcome EXCEPT ![r] = NoOutcome]

\* faulty variant, for sensitivity of the properties: the earliest day with telemetry
resolveLatestTelemetryDay_Earliest ==
    IF telemetry = {} THEN NoDay ELSE SetMin({t[2] : t \in telemetry})

\* resolveLatestTelemetryDay: findFirst({ orderBy: { day: 'desc' } })
resolveLatestTelemetryDay ==
    IF telemetry = {} THEN NoDay ELSE SetMax({t[2] : t \in telemetry})

----------------------------------------------------------------------------
(* scoring.service.ts: ScoringService.runScoringJob, one action per await *)

\* POST /score/run: the controller calls runScoringJob(parsed.day)
StartRun(r) ==
    /\ pc[r] = "idle"
    /\ runsStarted < MaxRuns
    /\ \E d \in {NoDay} \cup Days : dayArg' = [dayArg EXCEPT ![r] = d]
    /\ runsStarted' = runsStarted + 1
    /\ pc' = [pc EXCEPT ![r] = "RESOLVE_DAY"]
    /\ ResetLocals(r)
    /\ UNCHANGED <<telemetry, featuresDaily, predictions, auditLog, reconVars, featVars,
                   fallbackVars>>

\* lines 21-31
ResolveDay(r) ==
    /\ pc[r] = "RESOLVE_DAY"
    /\ LET resolved == IF dayArg[r] # NoDay THEN dayArg[r]
                       ELSE resolveLatestTelemetryDay
       IN  IF resolved = NoDay
           THEN /\ pc' = [pc EXCEPT ![r] = "SKIPPED"]
                /\ outcome' = [outcome EXCEPT ![r] =
                       [NoOutcome EXCEPT !.status = "skipped",
                                         !.reason = "No telemetry available"]]
                /\ UNCHANGED targetDay
           ELSE /\ pc' = [pc EXCEPT ![r] = "GENERATE_FEATURES"]
                /\ targetDay' = [targetDay EXCEPT ![r] = resolved]
                /\ UNCHANGED outcome
    /\ UNCHANGED <<telemetry, featuresDaily, predictions, auditLog, runsStarted,
                   dayArg, generated, batchItems, attempt, waited, scores,
                   scored, bucketMode, calls, fallbackUsed, lastFailure, reconVars, featVars,
                   fallbackVars>>

\* lines 33-57
GenerateFeatures(r) ==
    /\ pc[r] = "GENERATE_FEATURES"
    /\ LET rows == GeneratedRows(targetDay[r])
           store == UpsertFeatures(featuresDaily, rows)
       IN  /\ featuresDaily' = store
           /\ generated' = [generated EXCEPT ![r] = Cardinality(rows)]
           /\ IF Cardinality(rows) = 0
              THEN /\ pc' = [pc EXCEPT ![r] = "SKIPPED"]
                   /\ outcome' = [outcome EXCEPT ![r] =
                          [NoOutcome EXCEPT !.status = "skipped",
                                            !.day = targetDay[r],
                                            !.reason = "No feature rows generated"]]
                   /\ UNCHANGED batchItems
              ELSE /\ pc' = [pc EXCEPT ![r] = "SCORE"]
                   /\ batchItems' = [batchItems EXCEPT ![r] =
                          BatchItemsOf(store, targetDay[r])]
                   /\ UNCHANGED outcome
    /\ UNCHANGED <<telemetry, predictions, auditLog, runsStarted, dayArg,
                   targetDay, attempt, waited, scores, scored, bucketMode,
                   calls, fallbackUsed, lastFailure, reconVars, featVars,
                   fallbackVars>>

\* line 59: await this.modelClient.scoreBatch(batchItems); an exception leaves
\* runScoringJob and reaches the caller
Score(r) ==
    /\ pc[r] = "SCORE"
    /\ \E info \in InfoOutcomes, post \in PostOutcomes(targetDay[r], RemoteVariants) :
          LET result == scoreBatch(info, post)
          IN  /\ attempt' = [attempt EXCEPT ![r] = 1]
              /\ calls' = [calls EXCEPT ![r] = IF info = "ok" THEN 1 ELSE 0]
              /\ IF result.threw
                 THEN /\ pc' = [pc EXCEPT ![r] = "FAILED"]
                      /\ outcome' = [outcome EXCEPT ![r] =
                             [NoOutcome EXCEPT !.status = "error",
                                               !.reason = "ServiceUnavailableException"]]
                      /\ lastFailure' = [lastFailure EXCEPT ![r] =
                             IF info # "ok" THEN "model_info"
                             ELSE FailureOf(post)]
                      /\ UNCHANGED scores
                 ELSE /\ pc' = [pc EXCEPT ![r] = "RECONCILE"]
                      /\ scores' = [scores EXCEPT ![r] = result.data]
                      /\ UNCHANGED <<outcome, lastFailure>>
    /\ UNCHANGED <<telemetry, featuresDaily, predictions, auditLog, runsStarted,
                   dayArg, targetDay, generated, batchItems, waited, scored,
                   bucketMode, fallbackUsed, reconVars, featVars,
                   fallbackVars>>

\* faulty variant, for sensitivity of the properties: the batch is audited without being persisted
Reconcile_StraightToAudit(r) ==
    /\ pc[r] = "RECONCILE"
    /\ LET result == applyOperationalBuckets(scores[r])
       IN  /\ scored' = [scored EXCEPT ![r] = result.scored]
           /\ bucketMode' = [bucketMode EXCEPT ![r] = result.bucketMode]
    /\ pc' = [pc EXCEPT ![r] = "AUDIT"]
    /\ UNCHANGED <<telemetry, featuresDaily, predictions, auditLog, runsStarted,
                   dayArg, targetDay, generated, batchItems, attempt, waited,
                   scores, calls, fallbackUsed, lastFailure, outcome, reconVars, featVars,
                   fallbackVars>>

\* line 60
Reconcile(r) ==
    /\ pc[r] = "RECONCILE"
    /\ LET result == applyOperationalBuckets(scores[r])
       IN  /\ scored' = [scored EXCEPT ![r] = result.scored]
           /\ bucketMode' = [bucketMode EXCEPT ![r] = result.bucketMode]
    /\ pc' = [pc EXCEPT ![r] = "PERSIST"]
    /\ UNCHANGED <<telemetry, featuresDaily, predictions, auditLog, runsStarted,
                   dayArg, targetDay, generated, batchItems, attempt, waited,
                   scores, calls, fallbackUsed, lastFailure, outcome, reconVars, featVars,
                   fallbackVars>>

\* faulty variant, for sensitivity of the properties: a failing transaction keeps its first upsert
Persist_PartialOnFailure(r) ==
    /\ pc[r] = "PERSIST"
    /\ \E commits \in BOOLEAN :
          IF commits
          THEN /\ predictions' = upsertAll(predictions, scored[r], targetDay[r])
               /\ pc' = [pc EXCEPT ![r] = "AUDIT"]
               /\ UNCHANGED outcome
          ELSE /\ pc' = [pc EXCEPT ![r] = "FAILED"]
               /\ outcome' = [outcome EXCEPT ![r] =
                      [NoOutcome EXCEPT !.status = "error",
                                        !.reason = "PersistenceError"]]
               /\ predictions' = upsertAll(predictions,
                                     SubSeq(scored[r], 1, Min(1, Len(scored[r]))),
                                     targetDay[r])
    /\ UNCHANGED <<telemetry, featuresDaily, auditLog, runsStarted, dayArg,
                   targetDay, generated, batchItems, attempt, waited, scores,
                   scored, bucketMode, calls, fallbackUsed, lastFailure, reconVars, featVars,
                   fallbackVars>>

\* lines 62-88: the transaction commits as a whole, or it throws and nothing
\* is written
Persist(r) ==
    /\ pc[r] = "PERSIST"
    /\ \E commits \in BOOLEAN :
          IF commits
          THEN /\ predictions' = upsertAll(predictions, scored[r], targetDay[r])
               /\ pc' = [pc EXCEPT ![r] = "AUDIT"]
               /\ UNCHANGED outcome
          ELSE /\ pc' = [pc EXCEPT ![r] = "FAILED"]
               /\ outcome' = [outcome EXCEPT ![r] =
                      [NoOutcome EXCEPT !.status = "error",
                                        !.reason = "PersistenceError"]]
               /\ UNCHANGED predictions
    /\ UNCHANGED <<telemetry, featuresDaily, auditLog, runsStarted, dayArg,
                   targetDay, generated, batchItems, attempt, waited, scores,
                   scored, bucketMode, calls, fallbackUsed, lastFailure, reconVars, featVars,
                   fallbackVars>>

\* lines 90-119: the audit record, then the summary; when auditLog.create
\* throws, the exception leaves runScoringJob and the predictions stay
Audit(r) ==
    /\ pc[r] = "AUDIT"
    /\ \E created \in BOOLEAN :
          IF created
          THEN /\ auditLog' = Append(auditLog,
                      [action |-> "SCORE_RUN",
                       day |-> targetDay[r],
                       generatedFeatures |-> generated[r],
                       storedPredictions |-> Len(scored[r]),
                       modelVersion |-> IF Len(scored[r]) > 0
                                        THEN scored[r][1].model_version ELSE "unknown",
                       bucketMode |-> bucketMode[r],
                       riskDistribution |-> bucketDistribution(scored[r])])
               /\ pc' = [pc EXCEPT ![r] = "DONE"]
               /\ outcome' = [outcome EXCEPT ![r] =
                      [status |-> "completed",
                       day |-> targetDay[r],
                       reason |-> "",
                       generatedFeatures |-> generated[r],
                       storedPredictions |-> Len(scored[r]),
                       modelVersion |-> IF Len(scored[r]) > 0
                                        THEN scored[r][1].model_version ELSE "null",
                       bucketMode |-> bucketMode[r]]]
          ELSE /\ pc' = [pc EXCEPT ![r] = "FAILED"]
               /\ outcome' = [outcome EXCEPT ![r] =
                      [NoOutcome EXCEPT !.status = "error",
                                        !.reason = "PersistenceError"]]
               /\ UNCHANGED auditLog
    /\ UNCHANGED <<telemetry, featuresDaily, predictions, runsStarted, dayArg,
                   targetDay, generated, batchItems, attempt, waited, scores,
                   scored, bucketMode, calls, fallbackUsed, lastFailure, reconVars, featVars,
                   fallbackVars>>

\* the caller has its answer; the request's memory is gone
Finish(r) ==
    /\ pc[r] \in Terminal
    /\ pc' = [pc EXCEPT ![r] = "idle"]
    /\ dayArg' = [dayArg EXCEPT ![r] = NoDay]
    /\ ResetLocals(r)
    /\ UNCHANGED <<telemetry, featuresDaily, predictions, auditLog, runsStarted,
                   reconVars, featVars,
                   fallbackVars>>

----------------------------------------------------------------------------
(* seed.ts: seedFeaturesAndPredictions(latestDay), one action per await *)

\* main(): the telemetry is seeded up to latestDay, which is the day scored
SeedStart(r) ==
    /\ pc[r] = "idle"
    /\ runsStarted < MaxRuns
    /\ telemetry # {}
    /\ runsStarted' = runsStarted + 1
    /\ pc' = [pc EXCEPT ![r] = "GENERATE_FEATURES"]
    /\ ResetLocals(r)
    /\ UNCHANGED <<telemetry, featuresDaily, predictions, auditLog, dayArg,
                   reconVars, featVars,
                   fallbackVars>>

\* seed.ts lines 207-218
SeedGenerate(r) ==
    /\ pc[r] = "GENERATE_FEATURES"
    /\ LET day == resolveLatestTelemetryDay
           rows == GeneratedRows(day)
           store == UpsertFeatures(featuresDaily, rows)
       IN  /\ featuresDaily' = store
           /\ targetDay' = [targetDay EXCEPT ![r] = day]
           /\ generated' = [generated EXCEPT ![r] = Cardinality(rows)]
           /\ batchItems' = [batchItems EXCEPT ![r] = BatchItemsOf(store, day)]
    /\ attempt' = [attempt EXCEPT ![r] = 1]
    /\ pc' = [pc EXCEPT ![r] = "SCORE"]
    /\ UNCHANGED <<telemetry, predictions, auditLog, runsStarted, dayArg,
                   waited, scores, scored, bucketMode, calls, fallbackUsed,
                   lastFailure, outcome, reconVars, featVars,
                   fallbackVars>>

\* seed.ts lines 91-105: one iteration of the retry loop
SeedScoreAttempt(r) ==
    /\ pc[r] = "SCORE"
    /\ \E post \in PostOutcomes(targetDay[r], SeedVariants) :
          LET result == seedAttempt(post)
          IN  /\ calls' = [calls EXCEPT ![r] = calls[r] + 1]
              /\ IF ~ result.threw
                 THEN /\ scores' = [scores EXCEPT ![r] = result.data]
                      /\ scored' = [scored EXCEPT ![r] = result.data]
                      /\ lastFailure' = [lastFailure EXCEPT ![r] = "none"]
                      /\ pc' = [pc EXCEPT ![r] = "PERSIST"]
                      /\ UNCHANGED <<attempt, waited, fallbackUsed>>
                 ELSE IF attempt[r] = MAX_ATTEMPTS
                 THEN /\ scores' = [scores EXCEPT ![r] = fallbackScores(batchItems[r])]
                      /\ scored' = [scored EXCEPT ![r] = fallbackScores(batchItems[r])]
                      /\ fallbackUsed' = [fallbackUsed EXCEPT ![r] = TRUE]
                      /\ lastFailure' = [lastFailure EXCEPT ![r] = FailureOf(post)]
                      /\ pc' = [pc EXCEPT ![r] = "PERSIST"]
                      /\ UNCHANGED <<attempt, waited>>
                 ELSE /\ waited' = [waited EXCEPT ![r] =
                             Append(waited[r], RETRY_BASE_DELAY_MS * attempt[r])]
                      /\ attempt' = [attempt EXCEPT ![r] = attempt[r] + 1]
                      /\ lastFailure' = [lastFailure EXCEPT ![r] = FailureOf(post)]
                      /\ UNCHANGED <<scores, scored, fallbackUsed, pc>>
    /\ UNCHANGED <<telemetry, featuresDaily, predictions, auditLog, runsStarted,
                   dayArg, targetDay, generated, batchItems, bucketMode,
                   outcome, reconVars, featVars,
                   fallbackVars>>

\* seed.ts lines 222-249; main() catches what the transaction throws
SeedPersist(r) ==
    /\ pc[r] = "PERSIST"
    /\ \E commits \in BOOLEAN :
          IF commits
          THEN /\ predictions' = upsertAll(predictions, scored[r], targetDay[r])
               /\ pc' = [pc EXCEPT ![r] = "AUDIT"]
               /\ UNCHANGED outcome
          ELSE /\ pc' = [pc EXCEPT ![r] = "FAILED"]
               /\ outcome' = [outcome EXCEPT ![r] =
                      [NoOutcome EXCEPT !.status = "error",
                                        !.reason = "PersistenceError"]]
               /\ UNCHANGED predictions
    /\ UNCHANGED <<telemetry, featuresDaily, auditLog, runsStarted, dayArg,
                   targetDay, generated, batchItems, attempt, waited, scores,
                   scored, bucketMode, calls, fallbackUsed, lastFailure, reconVars, featVars,
                   fallbackVars>>

\* seed.ts lines 251-276: FEATURE_RUN, SCORE_RUN, the returned stats; either
\* auditLog.create may throw, and main() catches it
SeedAudit(r) ==
    /\ pc[r] = "AUDIT"
    /\ LET version == IF Len(scored[r]) > 0
                      THEN scored[r][1].model_version ELSE "none"
           records ==
                  <<[action |-> "FEATURE_RUN",
                     day |-> targetDay[r],
                     generatedFeatures |-> generated[r],
                     storedPredictions |-> 0,
                     modelVersion |-> "none",
                     bucketMode |-> "none",
                     riskDistribution |-> bucketDistribution(<<>>)],
                    [action |-> "SCORE_RUN",
                     day |-> targetDay[r],
                     generatedFeatures |-> 0,
                     storedPredictions |-> Len(scored[r]),
                     modelVersion |-> version,
                     bucketMode |-> "none",
                     riskDistribution |-> bucketDistribution(<<>>)]>>
       IN  \E created \in 0..2 :
              /\ auditLog' = auditLog \o SubSeq(records, 1, created)
              /\ IF created = 2
                 THEN /\ outcome' = [outcome EXCEPT ![r] =
                             [status |-> "completed",
                              day |-> targetDay[r],
                              reason |-> "",
                              generatedFeatures |-> generated[r],
                              storedPredictions |-> Len(scored[r]),
                              modelVersion |-> version,
                              bucketMode |-> "none"]]
                      /\ pc' = [pc EXCEPT ![r] = "DONE"]
                 ELSE /\ outcome' = [outcome EXCEPT ![r] =
                             [NoOutcome EXCEPT !.status = "error",
                                               !.reason = "PersistenceError"]]
                      /\ pc' = [pc EXCEPT ![r] = "FAILED"]
    /\ UNCHANGED <<telemetry, featuresDaily, predictions, runsStarted, dayArg,
                   targetDay, generated, batchItems, attempt, waited, scores,
                   scored, bucketMode, calls, fallbackUsed, lastFailure, reconVars, featVars,
                   fallbackVars>>

----------------------------------------------------------------------------
(* The reconciler on its own: a raw batch is drawn, applyOperationalBuckets  *)
(* is applied to it                                                         *)

MaxBatch ==
    25

MaxSmallBatch ==
    3

NoResult ==
    [scored |-> <<>>, bucketMode |-> "none"]

RawItem(d, s, b, at) ==
    [drive_id |-> d, day |-> 1, risk_score |-> s, risk_bucket |-> b,
     top_reasons |-> IF d = 1 THEN ReasonsA ELSE ReasonsB,
     model_version |-> "v1", scored_at |-> at]

\* every batch of up to MaxSmallBatch items over two ids, three scores, three tiers
SmallBatches ==
    UNION { { [i \in 1..n |-> RawItem(f[i][1], f[i][2], f[i][3], i)] :
                f \in [1..n -> {1, 2} \X {100000, 300000, 900000} \X RiskBuckets] } :
            n \in 0..MaxSmallBatch }

PatternScore(pattern, i, n) ==
    IF pattern = "const" THEN 300000
    ELSE IF pattern = "asc" THEN 10000 * i
    ELSE IF pattern = "desc" THEN 10000 * (n + 1 - i)
    ELSE 10000 * ((i + 1) \div 2)

\* batches of every size up to MaxBatch with distinct ids: scores constant,
\* ascending, descending or tied in pairs, ids ascending or descending, all
\* LOW or with one item (the first or the last) MED or HIGH
PatternBatches ==
    UNION { { [i \in 1..n |->
                 RawItem(IF idsUp THEN i ELSE n + 1 - i,
                         PatternScore(pattern, i, n),
                         IF i = odd[1] THEN odd[2] ELSE "LOW", i)] :
                pattern \in {"const", "asc", "desc", "pairs"},
                idsUp \in BOOLEAN,
                odd \in {0, 1, n} \X {"MED", "HIGH"} } :
            n \in 1..MaxBatch }

RawBatches ==
    SmallBatches \cup PatternBatches

RcApply ==
    /\ rcOut = NoResult
    /\ rcOut' = applyOperationalBuckets(rcIn)
    /\ UNCHANGED <<rcIn, pipelineVars, featVars, fallbackVars>>

----------------------------------------------------------------------------
(* feature-engineering.ts: the Feature Engine on one drive's history.       *)
(* A feature name `${metric}_${stat}` is kept as the pair of its parts, any   *)
(* other name as a one-element tuple, so that two names are equal exactly     *)
(* when the strings are. A value x of a vector is kept as x * FE_UNITS.       *)

\* a reading or a column that is null (number | null); readings are >= 0
Null ==
    -1

\* sixtieths: the mean of up to 6 readings is a whole number of them
FE_UNITS ==
    60

WINDOW_7 ==
    7

WINDOW_30 ==
    30

RAW_METRICS ==
    <<"smart_5_raw", "smart_187_raw", "smart_188_raw", "smart_197_raw",
      "smart_198_raw", "smart_199_raw", "smart_241_raw", "smart_242_raw",
      "temperature">>

METRIC_STATS ==
    <<"mean_7d", "mean_30d", "std_30d", "delta_vs_7d", "is_increasing">>

FeatureName(metric, stat) ==
    <<metric, stat>>

SeqRange(seq) ==
    {seq[i] : i \in 1..Len(seq)}

METRIC_FEATURE_COLUMNS ==
    {FeatureName(metric, stat) :
        metric \in SeqRange(RAW_METRICS), stat \in SeqRange(METRIC_STATS)}

MODEL_FEATURE_COLUMNS ==
    {<<"capacity_bytes">>, <<"age_days">>} \cup METRIC_FEATURE_COLUMNS

RECURSIVE SumSeq(_)
SumSeq(values) ==
    IF values = <<>> THEN 0 ELSE Head(values) + SumSeq(Tail(values))

RECURSIVE SqrtBetween(_, _, _)
SqrtBetween(x, lo, hi) ==
    IF lo = hi THEN lo
    ELSE LET mid == (lo + hi + 1) \div 2
         IN  IF mid * mid <= x THEN SqrtBetween(x, mid, hi)
             ELSE SqrtBetween(x, lo, mid - 1)

\* Math.sqrt, to the resolution of the values (rounded down)
sqrt(x) ==
    SqrtBetween(x, 0, Min(x, 40000))

IsNumber(value) ==
    value # Null

\* faulty variant, for sensitivity of the properties: the sum is divided by the window
mean_OverWindow(values) ==
    (FE_UNITS * SumSeq(values)) \div WINDOW_7

\* mean(values), in FE_UNITS
mean(values) ==
    IF Len(values) = 0 THEN 0
    ELSE (FE_UNITS * SumSeq(values)) \div Len(values)

\* stdDev(values), in FE_UNITS: the variance sum((v - m)^2) / n is
\* (n * sum(v^2) - sum(v)^2) / n^2
stdDev(values) ==
    IF Len(values) < 2 THEN 0
    ELSE LET n == Len(values)
             squares == [i \in 1..n |-> values[i] * values[i]]
             spread == n * SumSeq(squares) - SumSeq(values) * SumSeq(values)
         IN  sqrt((spread * FE_UNITS * FE_UNITS) \div (n * n))

\* values.slice(-window).filter(typeof value === 'number')
recentNumeric(values, window) ==
    SelectSeq(SubSeq(values, Max(1, Len(values) - window + 1), Len(values)),
              IsNumber)

metricFromRow(row, metric) ==
    CASE metric = "smart_5_raw" -> row.smart5
      [] metric = "smart_187_raw" -> row.smart187
      [] metric = "smart_188_raw" -> row.smart188
      [] metric = "smart_197_raw" -> row.smart197
      [] metric = "smart_198_raw" -> row.smart198
      [] metric = "smart_199_raw" -> row.smart199
      [] metric = "temperature" -> row.temperature
      [] OTHER -> Null

\* values[values.length - 1] of an empty array is undefined, which is no
\* number either
metricFeatureSet(sortedRows, metric) ==
    LET values == [i \in 1..Len(sortedRows) |-> metricFromRow(sortedRows[i], metric)]
        values7 == recentNumeric(values, WINDOW_7)
        values30 == recentNumeric(values, WINDOW_30)
        current == IF Len(values) = 0 THEN Null ELSE values[Len(values)]
        previous == IF Len(values) > 1 THEN values[Len(values) - 1] ELSE Null
        mean7 == mean(values7)
    IN  (FeatureName(metric, "mean_7d") :> mean7)
        @@ (FeatureName(metric, "mean_30d") :> mean(values30))
        @@ (FeatureName(metric, "std_30d") :> stdDev(values30))
        @@ (FeatureName(metric, "delta_vs_7d") :>
               (IF IsNumber(current) THEN FE_UNITS * current ELSE 0) - mean7)
        @@ (FeatureName(metric, "is_increasing") :>
               IF IsNumber(current) /\ IsNumber(previous) /\ current > previous
               THEN FE_UNITS ELSE 0)

\* [...rows].sort((a, b) => a.day - b.day): stable, rows of one day keep the
\* order they came in
sortedRows(rows) ==
    LET before(i, j) == \/ rows[i].day < rows[j].day
                        \/ rows[i].day = rows[j].day /\ i < j
        place(i) == 1 + Cardinality({j \in 1..Len(rows) : before(j, i)})
    IN  [k \in 1..Len(rows) |-> rows[CHOOSE i \in 1..Len(rows) : place(i) = k]]

\* for (const metric of RAW_METRICS) Object.assign(vector, metricFeatureSet(...))
RECURSIVE assignMetrics(_, _, _)
assignMetrics(vector, sorted, k) ==
    IF k > Len(RAW_METRICS) THEN vector
    ELSE assignMetrics(metricFeatureSet(sorted, RAW_METRICS[k]) @@ vector,
                       sorted, k + 1)

computeFeatureVector(rows, day, capacityBytes) ==
    LET sorted == sortedRows(rows)
        firstSeen == IF Len(sorted) = 0 THEN day ELSE sorted[1].day
        age == Max(0, day - firstSeen)
        vector ==
            (<<"capacity_bytes">> :>
                FE_UNITS * (IF capacityBytes = Null THEN 0 ELSE capacityBytes))
            @@ (<<"age_days">> :> FE_UNITS * age)
    IN  assignMetrics(vector, sorted, 1)

\* a JSON value: a number or null
JsonNumber(x) ==
    [t |-> "number", v |-> x]

JsonNull ==
    [t |-> "null", v |-> 0]

\* JSON.parse(JSON.stringify(vector)): every key, each finite number as the
\* JSON number it is
toJsonValue(vector) ==
    [name \in DOMAIN vector |-> JsonNumber(vector[name])]

\* the columns of the row that the scoring path reads, and featureVector
toFeaturesDailyCreateInput(driveId, day, vector) ==
    [driveId |-> driveId,
     day |-> day,
     ageDays |-> vector[<<"age_days">>],
     smart5Mean7d |-> vector[FeatureName("smart_5_raw", "mean_7d")],
     smart197Max30d |-> vector[FeatureName("smart_197_raw", "mean_30d")],
     smart197Mean7d |-> vector[FeatureName("smart_197_raw", "mean_7d")],
     missingSmart19730d |-> vector[FeatureName("smart_197_raw", "mean_30d")] = 0,
     featureVector |-> toJsonValue(vector)]

\* faulty variant, for sensitivity of the properties: a key the stored vector lacks is left out
featureVectorFromRow_OmitsMissing(row) ==
    LET source == row.featureVector
    IN  [column \in MODEL_FEATURE_COLUMNS \cap DOMAIN source |->
            IF source[column].t = "number" THEN source[column].v ELSE 0]

\* source = row.featureVector ?? {} (a row without featureVector has the
\* empty one); source[column] === undefined is: column is no key of source
featureVectorFromRow(row) ==
    LET source == row.featureVector
        vector == [column \in MODEL_FEATURE_COLUMNS |->
                     IF column \in DOMAIN source /\ source[column].t = "number"
                     THEN source[column].v ELSE 0]
        absent(column) == column \notin DOMAIN source
    IN  [vector EXCEPT
            ![<<"age_days">>] =
                IF absent(<<"age_days">>) /\ IsNumber(row.ageDays)
                THEN row.ageDays ELSE @,
            ![FeatureName("smart_5_raw", "mean_7d")] =
                IF absent(FeatureName("smart_5_raw", "mean_7d"))
                   /\ IsNumber(row.smart5Mean7d)
                THEN row.smart5Mean7d ELSE @,
            ![FeatureName("smart_197_raw", "mean_7d")] =
                IF absent(FeatureName("smart_197_raw", "mean_7d"))
                   /\ IsNumber(row.smart197Mean7d)
                THEN row.smart197Mean7d ELSE @]

----------------------------------------------------------------------------
(* What the scorers read of a vector *)

\* seed.ts, fallbackScores: the features of the linear term
FALLBACK_FEATURES ==
    {<<"age_days">>, FeatureName("smart_5", "mean_7d"),
     FeatureName("smart_197", "mean_7d"), <<"smart_197_max_30d">>,
     <<"smart_198_delta_7d">>, FeatureName("write_latency", "mean_7d"),
     <<"missing_smart_197_30d">>}

\* faulty variant, for sensitivity of the properties: a feature the vector lacks is sent as 0
normalizeFeatures_ZeroDefault(features, expectedFeatureNames) ==
    [name \in SeqRange(expectedFeatureNames) |->
        IF name \in DOMAIN features THEN JsonNumber(features[name])
        ELSE JsonNumber(0)]

\* model-client.service.ts, normalizeFeatures: one entry per expected name
normalizeFeatures(features, expectedFeatureNames) ==
    [name \in SeqRange(expectedFeatureNames) |->
        IF name \in DOMAIN features THEN JsonNumber(features[name])
        ELSE JsonNull]

NotSent ==
    [sent |-> FALSE, items |-> <<>>]

\* scoreBatch up to the POST: when GET /model/info or its parse throws, no
\* request is made; else the body is { items: normalizedItems }
scoreBatchRequest(items, info, expectedFeatureNames) ==
    IF info # "ok" THEN NotSent
    ELSE [sent |-> TRUE,
          items |-> [i \in 1..Len(items) |->
                       [drive_id |-> items[i].drive_id,
                        day |-> items[i].day,
                        features |-> normalizeFeatures(items[i].features,
                                                       expectedFeatureNames)]]]

----------------------------------------------------------------------------
(* The Feature Engine on its own: a history is drawn, the vector is          *)
(* computed, stored, read back and made into a request                     *)

MaxRows ==
    3

NoInput ==
    [rows |-> <<>>, day |-> NoDay, capacityBytes |-> Null, stored |-> "none",
     info |-> "none", names |-> <<>>]

NoVector ==
    [computed |-> FALSE]

\* one day's telemetry of the drive: smart5 and smart198 read a, smart197 and
\* smart199 read b, smart188 is never reported
TelemetryRow(day, a, b) ==
    [day |-> day, smart5 |-> a, smart187 |-> 0, smart188 |-> Null,
     smart197 |-> b, smart198 |-> a, smart199 |-> b, temperature |-> 30 + day]

\* the histories: up to MaxRows rows in any order, days possibly repeated,
\* readings possibly null
TelemetryRows ==
    {TelemetryRow(day, a, a) : day \in Days, a \in {Null, 1, 4}}

\* histories with a gap or with readings of 0: one or two rows, each of the
\* target day or of the day GAP_DAYS before it (inside the lookback)
GAP_DAYS ==
    10

SparseRows ==
    {TelemetryRow(SetMax(Days) - GAP_DAYS, a, a) : a \in {0, 4}}
        \cup {TelemetryRow(SetMax(Days), a, a) : a \in {Null, 0, 1}}

SparseHistories ==
    UNION { [1..n -> SparseRows] : n \in 1..2 }

Histories ==
    UNION { [1..n -> TelemetryRows] : n \in 0..MaxRows } \cup SparseHistories

\* how the row is found in featuresDaily: as generateFeaturesForDay wrote it,
\* or as other writers left it (no featureVector, a key missing from it, a
\* value that is no number, a null column)
StoredAs ==
    {"generated", "no_vector", "no_age_days", "no_smart_5_mean_7d",
     "no_temperature_mean_7d", "null_age_days", "no_age_days_null_column"}

Without(f, name) ==
    [k \in DOMAIN f \ {name} |-> f[k]]

StoredRow(row, stored) ==
    CASE stored = "no_vector" -> [row EXCEPT !.featureVector = <<>>]
      [] stored = "no_age_days" ->
            [row EXCEPT !.featureVector = Without(@, <<"age_days">>)]
      [] stored = "no_smart_5_mean_7d" ->
            [row EXCEPT !.featureVector =
                Without(@, FeatureName("smart_5_raw", "mean_7d"))]
      [] stored = "no_temperature_mean_7d" ->
            [row EXCEPT !.featureVector =
                Without(@, FeatureName("temperature", "mean_7d"))]
      [] stored = "null_age_days" ->
            [row EXCEPT !.featureVector = (<<"age_days">> :> JsonNull) @@ @]
      [] stored = "no_age_days_null_column" ->
            [row EXCEPT !.featureVector = Without(@, <<"age_days">>),
                        !.ageDays = Null]
      [] OTHER -> row

\* the feature lists a model may declare at /model/info
DeclaredLists ==
    { <<>>,
      <<<<"age_days">>, FeatureName("smart_5_raw", "mean_7d")>>,
      <<<<"age_days">>, FeatureName("smart_5", "mean_7d"), <<"age_days">>>>,
      <<<<"capacity_bytes">>, FeatureName("temperature", "std_30d"),
        <<"io_read_latency_ms">>>> }

\* <<capacityBytes, stored, info, names>>: a generated row under each
\* declared list and capacity, each other stored form, each failure of
\* GET /model/info
FeatCases ==
    { <<capacityBytes, "generated", "ok", names>> :
        capacityBytes \in {Null, 2}, names \in DeclaredLists }
        \cup { <<2, stored, "ok", <<<<"age_days">>, <<"capacity_bytes">>>>>> :
                 stored \in StoredAs }
        \cup { <<2, "generated", info, <<>>>> : info \in InfoOutcomes \ {"ok"} }

FeCompute ==
    /\ ~ feOut.computed
    /\ LET vector == computeFeatureVector(feIn.rows, feIn.day, feIn.capacityBytes)
           row == StoredRow(toFeaturesDailyCreateInput(1, feIn.day, vector),
                            feIn.stored)
           scorerVector == featureVectorFromRow(row)
       IN  feOut' = [computed |-> TRUE,
                     vector |-> vector,
                     row |-> row,
                     scorerVector |-> scorerVector,
                     request |->
                        scoreBatchRequest(
                            <<[drive_id |-> 1, day |-> feIn.day,
                               features |-> scorerVector]>>,
                            feIn.info, feIn.names)]
    /\ UNCHANGED <<feIn, pipelineVars, reconVars, fallbackVars>>

----------------------------------------------------------------------------
(* The fallback scorer on its own: a batch of items is drawn, fallbackScores *)
(* is applied to it                                                          *)

MaxFallbackBatch ==
    2

NoScores ==
    [computed |-> FALSE, scores |-> <<>>]

\* features: Record<string, number>. No key at all, age_days alone (the
\* vectors of the pipeline, and ages on both sides of each threshold), and
\* vectors that do carry the names the heuristic reads
FallbackFeatures ==
    { [name \in {} |-> 0],
      [age_days |-> 0], [age_days |-> 30], [age_days |-> 186],
      [age_days |-> 187], [age_days |-> 286], [age_days |-> 287],
      [age_days |-> 10, smart_197_max_30d |-> 13],
      [age_days |-> 10, smart_197_max_30d |-> 20, smart_5_mean_7d |-> 4],
      [age_days |-> 20, smart_5_mean_7d |-> 2, smart_197_mean_7d |-> 3,
       smart_197_max_30d |-> 5, smart_198_delta_7d |-> -1,
       write_latency_mean_7d |-> 10, missing_smart_197_30d |-> 1],
      [smart_197_max_30d |-> 1000],
      [smart_198_delta_7d |-> -1000] }

FallbackItems ==
    { [drive_id |-> d, day |-> SetMax(Days), features |-> f] :
        d \in Drives, f \in FallbackFeatures }

FallbackBatches ==
    UNION { [1..n -> FallbackItems] : n \in 0..MaxFallbackBatch }

FbScore ==
    /\ ~ fbOut.computed
    /\ fbOut' = [computed |-> TRUE, scores |-> fallbackScores(fbIn)]
    /\ UNCHANGED <<fbIn, pipelineVars, reconVars, featVars>>

----------------------------------------------------------------------------
(* Specifications *)

ApiRunIds ==
    {1}

PipelineInit ==
    /\ featuresDaily = {}
    /\ predictions = {}
    /\ auditLog = <<>>
    /\ runsStarted = 0
    /\ pc = Idle("idle")
    /\ dayArg = Idle(NoDay)
    /\ targetDay = Idle(NoDay)
    /\ generated = Idle(0)
    /\ batchItems = Idle(<<>>)
    /\ attempt = Idle(0)
    /\ waited = Idle(<<>>)
    /\ scores = Idle(<<>>)
    /\ scored = Idle(<<>>)
    /\ bucketMode = Idle("none")
    /\ calls = Idle(0)
    /\ fallbackUsed = Idle(FALSE)
    /\ lastFailure = Idle("none")
    /\ outcome = Idle(NoOutcome)

Init ==
    /\ telemetry \in TelemetryChoices
    /\ PipelineInit
    /\ rcIn = <<>>
    /\ rcOut = NoResult
    /\ feIn = NoInput
    /\ feOut = NoVector
    /\ fbIn = <<>>
    /\ fbOut = NoScores

Next ==
    \E r \in ApiRunIds :
        \/ StartRun(r)
        \/ ResolveDay(r)
        \/ GenerateFeatures(r)
        \/ Score(r)
        \/ Reconcile(r)
        \/ Persist(r)
        \/ Audit(r)
        \/ Finish(r)

\* runs of the API's scoring job, one after the other
Spec ==
    Init /\ [][Next]_vars

SeedInit ==
    /\ telemetry \in TelemetryChoices \ {{}}
    /\ PipelineInit
    /\ rcIn = <<>>
    /\ rcOut = NoResult
    /\ feIn = NoInput
    /\ feOut = NoVector
    /\ fbIn = <<>>
    /\ fbOut = NoScores

SeedNext ==
    \E r \in ApiRunIds :
        \/ SeedStart(r)
        \/ SeedGenerate(r)
        \/ SeedScoreAttempt(r)
        \/ SeedPersist(r)
        \/ SeedAudit(r)
        \/ Finish(r)

\* runs of the seed script
SeedSpec ==
    SeedInit /\ [][SeedNext]_vars

\* what the scorer is seen to do while two runs are in flight: it fails with
\* a timeout, or it answers the batch it was sent, item for item, as model
\* "v1", each item 0.9 HIGH or 0.1 LOW
AnswersTheBatch(r) ==
    /\ lastFailure[r] \in {"none", "timeout"}
    /\ Len(scores[r]) \in {0, Len(batchItems[r])}
    /\ \A i \in 1..Len(scores[r]) :
          /\ scores[r][i].drive_id = batchItems[r][i].drive_id
          /\ scores[r][i].model_version = "v1"
          /\ scores[r][i].top_reasons = ReasonsA
          /\ scores[r][i].risk_bucket =
                IF scores[r][i].risk_score = 900000 THEN "HIGH" ELSE "LOW"

ConcNext ==
    \E r \in RunIds :
        \/ StartRun(r)
        \/ ResolveDay(r)
        \/ GenerateFeatures(r)
        \/ Score(r) /\ AnswersTheBatch(r)'
        \/ Reconcile(r)
        \/ Persist(r)
        \/ Audit(r)
        \/ Finish(r)

\* two invocations of the API's scoring job in flight at once, their awaits
\* interleaved
ConcSpec ==
    Init /\ [][ConcNext]_vars

ReconInit ==
    /\ telemetry = {}
    /\ PipelineInit
    /\ rcIn \in RawBatches
    /\ rcOut = NoResult
    /\ feIn = NoInput
    /\ feOut = NoVector
    /\ fbIn = <<>>
    /\ fbOut = NoScores

ReconNext ==
    RcApply

\* the reconciler applied to each raw batch
ReconSpec ==
    ReconInit /\ [][ReconNext]_vars

FeatInit ==
    /\ telemetry = {}
    /\ PipelineInit
    /\ rcIn = <<>>
    /\ rcOut = NoResult
    /\ \E rows \in Histories, case \in FeatCases :
          feIn = [rows |-> rows, day |-> SetMax(Days),
                  capacityBytes |-> case[1], stored |-> case[2],
                  info |-> case[3], names |-> case[4]]
    /\ feOut = NoVector
    /\ fbIn = <<>>
    /\ fbOut = NoScores

FeatNext ==
    FeCompute

FallbackInit ==
    /\ telemetry = {}
    /\ PipelineInit
    /\ rcIn = <<>>
    /\ rcOut = NoResult
    /\ feIn = NoInput
    /\ feOut = NoVector
    /\ fbIn \in FallbackBatches
    /\ fbOut = NoScores

FallbackNext ==
    FbScore

\* the fallback scorer applied to each batch
FallbackSpec ==
    FallbackInit /\ [][FallbackNext]_vars

\* the Feature Engine applied to each history
FeatSpec ==
    FeatInit /\ [][FeatNext]_vars

----------------------------------------------------------------------------
(* Claims about the scoring client (checked on the runs of the API, Spec) *)

TransientFailures ==
    {"timeout", "network", "http5xx"}

\* C1: in a run of runScoringJob whose remote scoring attempts all fail
\* (timeout, network error, 5xx), the caller is not given a failure: the run
\* ends 'completed'.
C1_RemoteFailureNeverSurfaces ==
    \A r \in RunIds :
        pc[r] \in Terminal /\ lastFailure[r] \in TransientFailures
            => outcome[r].status = "completed"

\* C2: the scoring client makes at most 8 calls for a batch, has slept
\* 1500 ms * n after failed attempt n, invokes the fallback scorer only after
\* the 8th failure, and gives up calling the remote scorer only then.
C2_RetriesUpToCeiling ==
    \A r \in RunIds :
        /\ calls[r] <= 8
        /\ waited[r] = [n \in 1..Len(waited[r]) |-> 1500 * n]
        /\ attempt[r] >= 1 => Len(waited[r]) = attempt[r] - 1
        /\ fallbackUsed[r] => calls[r] = 8
        /\ pc[r] # "SCORE" /\ lastFailure[r] # "none" => attempt[r] = 8

\* C3: the scores the scoring client hands to the rest of the run have the
\* length of the input batch and its set of (device id, day) pairs.
C3_OneScorePerInputItem ==
    \A r \in RunIds :
        pc[r] \in {"RECONCILE", "PERSIST", "AUDIT", "DONE"}
            => /\ Len(scores[r]) = Len(batchItems[r])
               /\ {<<scores[r][i].drive_id, scores[r][i].day>> :
                       i \in 1..Len(scores[r])}
                  = {<<batchItems[r][i].drive_id, batchItems[r][i].day>> :
                       i \in 1..Len(batchItems[r])}

\* C4: a response that fails the schema is not accepted and not persisted;
\* like a transient failure it uses up one attempt, and the next attempt or,
\* after the 8th, the fallback scorer follows.
C4_InvalidResponseIsRetried ==
    /\ \A p \in predictions :
          p.riskScore >= 0 /\ p.riskScore <= 1000000
              /\ p.riskBucket \in {"LOW", "MED", "HIGH"}
    /\ \A r \in RunIds :
          lastFailure[r] = "invalid_response"
              => \/ pc[r] = "SCORE" /\ attempt[r] <= 8
                 \/ fallbackUsed[r] /\ attempt[r] = 8

\* C5: when the remote scorer was unreachable throughout a run, every item
\* of the run's batch has model_version "heuristic-seed-v1" and the summary
\* the caller gets names the fallback scorer.
C5_UnreachableMeansHeuristic ==
    \A r \in RunIds :
        /\ pc[r] \in Terminal
        /\ lastFailure[r] \in TransientFailures
        /\ outcome[r].reason # "PersistenceError"
        => /\ outcome[r].status = "completed"
           /\ outcome[r].modelVersion = "heuristic-seed-v1"
           /\ \A i \in 1..Len(scored[r]) :
                 scored[r][i].model_version = "heuristic-seed-v1"

----------------------------------------------------------------------------
(* Claims about the reconciler *)

Applied ==
    rcOut # NoResult

AllLow(items) ==
    \A i \in 1..Len(items) : items[i].risk_bucket = "LOW"

\* the raw item an output item was made from (scored_at numbers the raw batch)
RawOf(k) ==
    rcIn[rcOut.scored[k].scored_at]

\* the rank order: descending raw probability, ties by ascending device id
RankedBefore(a, b) ==
    \/ a.risk_score > b.risk_score
    \/ a.risk_score = b.risk_score /\ a.drive_id <= b.drive_id

\* C6: a raw batch holding at least one MED or HIGH item is returned as it
\* is, item for item, with mode "model".
C6_PassThroughUnchanged ==
    /\ Applied
    /\ \E i \in 1..Len(rcIn) : rcIn[i].risk_bucket \in {"MED", "HIGH"}
    => /\ rcOut.scored = rcIn
       /\ rcOut.bucketMode = "model"

C6_Witness ==
    /\ Applied
    /\ Len(rcIn) >= 2
    /\ \E i \in 1..Len(rcIn) : rcIn[i].risk_bucket = "MED"
    /\ \A i \in 1..Len(rcIn) : rcIn[i].risk_bucket # "HIGH"
    /\ rcOut.scored = rcIn

\* C7: for a non-empty all-LOW raw batch the output is the batch in rank
\* order, its first item (one of highest raw probability) is not LOW, and
\* the reconciled probabilities never increase along the rank order.
C7_RankOrderMonotone ==
    Applied /\ Len(rcIn) > 0 /\ AllLow(rcIn)
    => LET out == rcOut.scored
       IN  /\ Len(out) = Len(rcIn)
           /\ {out[k].scored_at : k \in 1..Len(out)} = 1..Len(rcIn)
           /\ \A k, l \in 1..Len(out) : k < l => RankedBefore(RawOf(k), RawOf(l))
           /\ \A i \in 1..Len(rcIn) : RawOf(1).risk_score >= rcIn[i].risk_score
           /\ out[1].risk_bucket # "LOW"
           /\ \A k, l \in 1..Len(out) : k < l => out[k].risk_score >= out[l].risk_score

C7_Witness ==
    /\ Applied
    /\ AllLow(rcIn)
    /\ Len(rcIn) = 25
    /\ \E i, j \in 1..Len(rcIn) : i # j /\ rcIn[i].risk_score = rcIn[j].risk_score
    /\ rcOut.scored[2].risk_bucket = "HIGH"
    /\ rcOut.scored[2].risk_score < rcOut.scored[1].risk_score
    /\ rcOut.scored[3].risk_bucket = "MED"

\* the least k with k >= pct% of n
CeilPercent(pct, n) ==
    CHOOSE k \in 0..n : 100 * k >= pct * n /\ 100 * (k - 1) < pct * n

ExpectedHigh(n) ==
    IF n >= 20 THEN CeilPercent(5, n) ELSE IF n >= 1 THEN 1 ELSE 0

ExpectedMed(n) ==
    IF n >= 10 THEN CeilPercent(15, n)
    ELSE IF n - ExpectedHigh(n) >= 1 THEN 1 ELSE 0

TierCounts(H, M) ==
    LET out == rcOut.scored
        n == Len(rcIn)
    IN  /\ Len(out) = n
        /\ H + M <= n
        /\ \A k \in 1..Len(out) :
              out[k].risk_bucket = IF k <= H THEN "HIGH"
                                   ELSE IF k <= H + M THEN "MED"
                                   ELSE "LOW"
        /\ n = 25 => H = 2 /\ M = 4 /\ n - H - M = 19

\* C8 as stated: every all-LOW raw batch of size n, the empty one included,
\* gets H HIGH, then M MED, then LOW items, and mode "rank_fallback".
C8_AsStated ==
    Applied /\ AllLow(rcIn)
    => /\ TierCounts(ExpectedHigh(Len(rcIn)), ExpectedMed(Len(rcIn)))
       /\ rcOut.bucketMode = "rank_fallback"

\* C8, amended: every all-LOW raw batch of size n >= 1 gets H HIGH, then M
\* MED, then n - H - M LOW items, H + M <= n, and mode "rank_fallback"; the
\* empty batch is returned empty with mode "model".
C8_TierCounts ==
    /\ Applied /\ AllLow(rcIn) /\ Len(rcIn) >= 1
       => /\ TierCounts(ExpectedHigh(Len(rcIn)), ExpectedMed(Len(rcIn)))
          /\ rcOut.bucketMode = "rank_fallback"
    /\ Applied /\ Len(rcIn) = 0
       => rcOut.scored = <<>> /\ rcOut.bucketMode = "model"

C8_Witness ==
    /\ Applied
    /\ AllLow(rcIn)
    /\ Len(rcIn) = 25
    /\ rcOut.bucketMode = "rank_fallback"
    /\ Cardinality({k \in 1..25 : rcOut.scored[k].risk_bucket = "HIGH"}) = 2
    /\ Cardinality({k \in 1..25 : rcOut.scored[k].risk_bucket = "MED"}) = 4
    /\ Cardinality({k \in 1..25 : rcOut.scored[k].risk_bucket = "LOW"}) = 19

NoLowAboveHigh(items) ==
    \A i, j \in 1..Len(items) :
        ~ /\ items[i].risk_bucket = "LOW"
          /\ items[j].risk_bucket = "HIGH"
          /\ items[i].risk_score > items[j].risk_score

\* C9: in the batch the reconciler returned to a run, in either mode, no LOW
\* item has a strictly higher probability than a HIGH item; so it is with
\* every batch a run persists.
C9_TiersMonotoneInProbability ==
    \A r \in RunIds :
        pc[r] \in {"PERSIST", "AUDIT", "DONE"} => NoLowAboveHigh(scored[r])

----------------------------------------------------------------------------
(* Claims about the prediction table *)

SameKey(p, q) ==
    p.driveId = q.driveId /\ p.day = q.day /\ p.modelVersion = q.modelVersion

OneRowPerKey ==
    \A p, q \in predictions : SameKey(p, q) => p = q

KeyOfScore(r, i) ==
    <<scored[r][i].drive_id, targetDay[r], scored[r][i].model_version>>

RowKey(p) ==
    <<p.driveId, p.day, p.modelVersion>>

\* the transaction of run r commits: each key of the batch has exactly one
\* row, holding the values of the last item of the batch with that key; rows
\* of other keys are as they were; a row is new only if its key was absent
CommitEffect(r) ==
    LET idx == 1..Len(scored[r])
        keys == {KeyOfScore(r, i) : i \in idx}
        lastOf(k) == scored[r][CHOOSE i \in idx :
                        /\ KeyOfScore(r, i) = k
                        /\ \A j \in idx : KeyOfScore(r, j) = k => j <= i]
    IN  /\ \A k \in keys :
              \E p \in predictions' :
                  /\ RowKey(p) = k
                  /\ p.riskScore = lastOf(k).risk_score
                  /\ p.riskBucket = lastOf(k).risk_bucket
                  /\ p.reasonCodes = lastOf(k).top_reasons
        /\ \A p \in predictions : RowKey(p) \notin keys => p \in predictions'
        /\ Cardinality(predictions') =
              Cardinality(predictions)
              + Cardinality({k \in keys : \A p \in predictions : RowKey(p) # k})

\* C10: the prediction table never holds two rows of one (device, day, model
\* version); a run that writes keys the table already holds adds no row and
\* leaves each of them with that run's probability, tier and reason codes.
C10_UpsertOneRowPerKey ==
    /\ []OneRowPerKey
    /\ [][\A r \in RunIds :
            pc[r] = "PERSIST" /\ pc'[r] = "AUDIT" => CommitEffect(r)]_vars

\* two completed runs of one day and one model version, one row: the second
\* run (rank_fallback, 0.85 HIGH) overwrote what the first (model) stored
C10_Witness ==
    /\ Len(auditLog) = 2
    /\ auditLog[1].day = auditLog[2].day
    /\ auditLog[1].modelVersion = auditLog[2].modelVersion
    /\ auditLog[1].storedPredictions = 1
    /\ auditLog[2].storedPredictions = 1
    /\ auditLog[1].bucketMode = "model"
    /\ auditLog[2].bucketMode = "rank_fallback"
    /\ Cardinality(predictions) = 1
    /\ \A p \in predictions : p.riskScore = 850000 /\ p.riskBucket = "HIGH"

----------------------------------------------------------------------------
(* Claims about the course of a run (checked on the runs of the API, Spec) *)

\* C11: when the persistence transaction of a run fails, no prediction row
\* changes and no audit record is appended, the run ends as a failure given to
\* the caller, and nothing of the failed run is retried: the next thing is a
\* new invocation. Prediction rows change only when a transaction commits.
C11_FailedPersistWritesNothing ==
    /\ [][\A r \in RunIds :
            pc[r] = "PERSIST" /\ pc'[r] # "PERSIST" /\ pc'[r] # "AUDIT"
                => /\ pc'[r] = "FAILED"
                   /\ outcome'[r].status = "error"
                   /\ predictions' = predictions
                   /\ auditLog' = auditLog]_vars
    /\ [][\A r \in RunIds :
            pc[r] = "FAILED" /\ pc'[r] # "FAILED"
                => /\ pc'[r] = "idle"
                   /\ predictions' = predictions
                   /\ auditLog' = auditLog]_vars
    /\ [][predictions' # predictions
            => \E r \in RunIds : pc[r] = "PERSIST" /\ pc'[r] = "AUDIT"]_vars

\* a second run of a day failed at the transaction: its batch differs from
\* the row the first run stored, and the row is as the first run left it
C11_Witness ==
    /\ pc[1] = "FAILED"
    /\ bucketMode[1] = "model"
    /\ Len(auditLog) = 1
    /\ Len(scored[1]) = 1
    /\ \E p \in predictions :
          /\ p.driveId = scored[1][1].drive_id
          /\ p.day = targetDay[1]
          /\ p.modelVersion = scored[1][1].model_version
          /\ p.riskScore # scored[1][1].risk_score

\* C13: a run whose transaction committed ends DONE with exactly one
\* SCORE_RUN record of its day appended; the audit log changes only by such
\* an append (skipped and failed runs append nothing, no record is modified
\* or removed).
C13_OneAuditPerPersistedRun ==
    /\ [][\A r \in RunIds :
            pc[r] = "AUDIT" /\ pc'[r] # "AUDIT"
                => /\ pc'[r] = "DONE"
                   /\ Len(auditLog') = Len(auditLog) + 1
                   /\ auditLog'[Len(auditLog')].action = "SCORE_RUN"
                   /\ auditLog'[Len(auditLog')].day = targetDay[r]]_vars
    /\ [][auditLog' # auditLog
            => /\ \E r \in RunIds : pc[r] = "AUDIT" /\ pc'[r] = "DONE"
               /\ Len(auditLog') = Len(auditLog) + 1
               /\ SubSeq(auditLog', 1, Len(auditLog)) = auditLog]_vars

\* the reconciled batch is what a transaction writes, and the scorer has been
\* called only in runs that generated features
ReconciledBeforePersisted ==
    /\ [](\A r \in RunIds :
            /\ calls[r] > 0 => generated[r] > 0
            /\ pc[r] \in {"PERSIST", "AUDIT", "DONE"}
                  => scored[r] = applyOperationalBuckets(scores[r]).scored)
    /\ [][predictions' # predictions
            => \E r \in RunIds :
                  /\ pc[r] = "PERSIST"
                  /\ predictions' =
                        upsertAll(predictions,
                                  applyOperationalBuckets(scores[r]).scored,
                                  targetDay[r])]_vars

C15_SkippedRuns ==
    /\ [](\A r \in RunIds :
            pc[r] = "SKIPPED"
                => /\ outcome[r].status = "skipped"
                   /\ outcome[r].reason # ""
                   /\ outcome[r].storedPredictions = 0
                   /\ calls[r] = 0
                   /\ attempt[r] = 0
                   /\ scored[r] = <<>>)
    /\ [][\A r \in RunIds :
            pc[r] = "RESOLVE_DAY" /\ pc'[r] # pc[r]
                => /\ predictions' = predictions
                   /\ auditLog' = auditLog
                   /\ IF dayArg[r] = NoDay /\ telemetry = {}
                      THEN pc'[r] = "SKIPPED"
                      ELSE /\ pc'[r] = "GENERATE_FEATURES"
                           /\ dayArg[r] # NoDay => targetDay'[r] = dayArg[r]
                           /\ dayArg[r] = NoDay
                                 => /\ \E t \in telemetry : t[2] = targetDay'[r]
                                    /\ \A t \in telemetry : t[2] <= targetDay'[r]]_vars
    /\ [][\A r \in RunIds :
            pc[r] = "GENERATE_FEATURES" /\ pc'[r] # pc[r]
                => /\ predictions' = predictions
                   /\ auditLog' = auditLog
                   /\ pc'[r] = "SKIPPED" <=> generated'[r] = 0
                   /\ pc'[r] # "SKIPPED" => pc'[r] = "SCORE"]_vars

\* after a completed run of the latest day, a run of a day without telemetry
\* in its window is skipped and leaves what the first run stored
C15_Witness ==
    /\ pc[1] = "SKIPPED"
    /\ outcome[1].reason = "No feature rows generated"
    /\ dayArg[1] # NoDay
    /\ telemetry # {}
    /\ Len(auditLog) = 1
    /\ auditLog[1].day # targetDay[1]
    /\ predictions # {}

----------------------------------------------------------------------------
(* Claims about runs in flight at once (checked on ConcSpec) *)

\* C12: however two runs interleave, the prediction table changes only by the
\* commit of one run's whole batch: after it every key of the batch has one
\* row with that run's values (so the later commit decides a key both wrote,
\* and two runs of one key set leave the whole output of the later one),
\* rows of other keys are untouched, and no key ever has two rows.
C12_ConcurrentCommitsAtomic ==
    /\ []OneRowPerKey
    /\ [][predictions' # predictions
            => \E r \in RunIds :
                  /\ pc[r] = "PERSIST"
                  /\ pc'[r] = "AUDIT"
                  /\ \A q \in RunIds \ {r} : pc'[q] = pc[q]
                  /\ CommitEffect(r)]_vars

\* both runs of day 2 have committed and wait to audit; they scored the two
\* drives differently, and the table is the output of run 2 alone
C12_Witness ==
    /\ pc[1] = "AUDIT"
    /\ pc[2] = "AUDIT"
    /\ targetDay[1] = targetDay[2]
    /\ Len(scored[1]) = 2
    /\ Len(scored[2]) = 2
    /\ \A i \in 1..2 :
          /\ scored[1][i].drive_id = scored[2][i].drive_id
          /\ scored[1][i].model_version = scored[2][i].model_version
          /\ scored[1][i].risk_score # scored[2][i].risk_score
    /\ predictions = upsertAll({}, scored[2], targetDay[2])

----------------------------------------------------------------------------
(* Claims about the mode flag *)

\* C16: in the summary of a completed run and in its audit record the mode
\* flag is "model" exactly when the persisted batch is the one the remote
\* model returned; when the batch was reconciled by rank or made by the
\* fallback scorer the flag is there and names a substitute.
C16_ModeFlagTellsOrigin ==
    \A r \in RunIds :
        pc[r] = "DONE"
            => LET genuine == ~ fallbackUsed[r] /\ scored[r] = scores[r]
               IN  /\ outcome[r].bucketMode = "model" <=> genuine
                   /\ ~ genuine => outcome[r].bucketMode \notin {"model", "none"}
                   /\ auditLog[Len(auditLog)].bucketMode = outcome[r].bucketMode

----------------------------------------------------------------------------
(* Claims about the feature vector (checked on the Feature Engine, FeatSpec) *)

\* capacity_bytes, age_days and the five statistics of the nine metrics
DeclaredKeys ==
    {<<"capacity_bytes">>, <<"age_days">>}
        \cup ({"smart_5_raw", "smart_187_raw", "smart_188_raw", "smart_197_raw",
               "smart_198_raw", "smart_199_raw", "smart_241_raw",
               "smart_242_raw", "temperature"}
              \X {"mean_7d", "mean_30d", "std_30d", "delta_vs_7d",
                  "is_increasing"})

HasDeclaredKeys(vector) ==
    /\ DOMAIN vector = DeclaredKeys
    /\ \A name \in DOMAIN vector : vector[name] \in Int

\* the stored vector holds a number under the name
StoredNumber(name) ==
    /\ name \in DOMAIN feOut.row.featureVector
    /\ feOut.row.featureVector[name].t = "number"

\* the column of the row that stands in for a name absent from the stored
\* vector
ColumnFor(name) ==
    CASE name = <<"age_days">> -> feOut.row.ageDays
      [] name = <<"smart_5_raw", "mean_7d">> -> feOut.row.smart5Mean7d
      [] name = <<"smart_197_raw", "mean_7d">> -> feOut.row.smart197Mean7d
      [] OTHER -> Null

\* C17 as stated: the computed vector and the vector handed to the scorer
\* have exactly the declared keys, each a number; a stored value that is
\* missing or no number is 0 in the latter.
C17_AsStated ==
    feOut.computed
        => /\ HasDeclaredKeys(feOut.vector)
           /\ HasDeclaredKeys(feOut.scorerVector)
           /\ \A name \in DeclaredKeys :
                 IF StoredNumber(name)
                 THEN feOut.scorerVector[name] = feOut.row.featureVector[name].v
                 ELSE feOut.scorerVector[name] = 0

\* C17, amended: the computed vector and the vector handed to the scorer have
\* exactly the declared keys, each a number; a stored value that is missing
\* or no number is 0 in the latter, except that age_days, smart_5_raw_mean_7d
\* and smart_197_raw_mean_7d, when absent from the stored vector, take the
\* row's ageDays, smart5Mean7d, smart197Mean7d column if it is a number.
C17_DeclaredKeysAlwaysPresent ==
    feOut.computed
        => /\ HasDeclaredKeys(feOut.vector)
           /\ HasDeclaredKeys(feOut.scorerVector)
           /\ \A name \in DeclaredKeys :
                 feOut.scorerVector[name] =
                     IF StoredNumber(name)
                     THEN feOut.row.featureVector[name].v
                     ELSE IF name \notin DOMAIN feOut.row.featureVector
                             /\ ColumnFor(name) # Null
                     THEN ColumnFor(name)
                     ELSE 0

\* a history of three rows with a missing reading, stored without age_days in
\* the vector: the scorer's vector has every key, age_days from the column
C17_Witness ==
    /\ feOut.computed
    /\ Len(feIn.rows) = 3
    /\ \E i \in 1..3 : feIn.rows[i].smart5 = Null
    /\ \E i \in 1..3 : feIn.rows[i].smart5 # Null
    /\ <<"age_days">> \notin DOMAIN feOut.row.featureVector
    /\ feOut.scorerVector[<<"age_days">>] = feOut.row.ageDays
    /\ feOut.row.ageDays > 0
    /\ Cardinality(DOMAIN feOut.scorerVector) = 47

\* C18: every feature name the fallback scorer reads (age_days,
\* smart_5_mean_7d, smart_197_mean_7d, smart_197_max_30d, smart_198_delta_7d,
\* write_latency_mean_7d, missing_smart_197_30d) is a key of the vector the
\* scorer is given.
C18_ScorerReadsOnlyKeys ==
    feOut.computed => FALLBACK_FEATURES \subseteq DOMAIN feOut.scorerVector

\* C19: when model/info was obtained and validated, the feature map sent for
\* an item has exactly the declared names as keys: a declared name the vector
\* has carries the vector's value, one it lacks carries null, and no other
\* key of the vector is sent; when model/info was not obtained or is invalid
\* no score_batch request is sent.
C19_RequestCarriesDeclaredFeatures ==
    feOut.computed
        => IF feIn.info = "ok"
           THEN /\ feOut.request.sent
                /\ Len(feOut.request.items) = 1
                /\ LET sent == feOut.request.items[1].features
                   IN  /\ DOMAIN sent = {feIn.names[i] : i \in 1..Len(feIn.names)}
                       /\ \A name \in DOMAIN sent :
                             IF name \in DOMAIN feOut.scorerVector
                             THEN sent[name] =
                                    [t |-> "number", v |-> feOut.scorerVector[name]]
                             ELSE sent[name].t = "null"
           ELSE ~ feOut.request.sent

\* a declared list with a name the vector lacks: it is sent as null, age_days
\* with its value, and the other 46 keys of the vector are not sent
C19_Witness ==
    /\ feOut.computed
    /\ feOut.request.sent
    /\ LET sent == feOut.request.items[1].features
       IN  /\ DOMAIN sent = {<<"age_days">>, <<"smart_5", "mean_7d">>}
           /\ sent[<<"smart_5", "mean_7d">>].t = "null"
           /\ sent[<<"age_days">>].t = "number"
           /\ sent[<<"age_days">>].v > 0
    /\ Cardinality(DOMAIN feOut.scorerVector) = 47

\* C20: the vector computed for a history is the same for every order in
\* which the rows are supplied, also when two rows carry the same day.
C20_OrderIndependent ==
    feOut.computed
        => \A f \in Permutations(1..Len(feIn.rows)) :
              computeFeatureVector([i \in 1..Len(feIn.rows) |-> feIn.rows[f[i]]],
                                   feIn.day, feIn.capacityBytes)
                  = feOut.vector

----------------------------------------------------------------------------
(* Claims about the probabilities and the identity of reconciled items *)

\* the probability the interpolation rule gives position p of a tier of size s
InterpolatedAt(bucket, p, s) ==
    LET hi == IF bucket = "HIGH" THEN 950000 ELSE IF bucket = "MED" THEN 740000 ELSE 390000
        lo == IF bucket = "HIGH" THEN 750000 ELSE IF bucket = "MED" THEN 400000 ELSE 20000
    IN  IF s = 1 THEN (hi + lo) \div 2
        ELSE RoundDiv(hi * (s - 1) - (hi - lo) * p, s - 1)

PositionInTier(out, k) ==
    Cardinality({j \in 1..(k - 1) : out[j].risk_bucket = out[k].risk_bucket})

SizeOfTier(out, bucket) ==
    Cardinality({j \in 1..Len(out) : out[j].risk_bucket = bucket})

\* C23: in rank reconciliation the item at position p (from 0) of a tier of
\* size s gets max - (max - min) * p / (s - 1) when s > 1 and the midpoint of
\* the tier's range when s = 1, in each of the tiers HIGH, MED and LOW.
C23_InterpolatedWithinTier ==
    Applied /\ Len(rcIn) > 0 /\ AllLow(rcIn)
    => LET out == rcOut.scored
       IN  \A k \in 1..Len(out) :
              out[k].risk_score =
                  InterpolatedAt(out[k].risk_bucket, PositionInTier(out, k),
                                 SizeOfTier(out, out[k].risk_bucket))

Permuted(items, f) ==
    [i \in 1..Len(items) |-> items[f[i]]]

DistinctIds(items) ==
    \A i, j \in 1..Len(items) : i # j => items[i].drive_id # items[j].drive_id

\* every reordering of up to five items; the reversal, a rotation and a swap
\* of the first two of a longer batch
Reorderings(n) ==
    IF n <= 5 THEN Permutations(1..n)
    ELSE { [i \in 1..n |-> n + 1 - i],
           [i \in 1..n |-> IF i = n THEN 1 ELSE i + 1],
           [i \in 1..n |-> IF i = 1 THEN 2 ELSE IF i = 2 THEN 1 ELSE i] }

\* the tier and probability a result gives a device
ResultFor(result, d) ==
    LET k == CHOOSE k \in 1..Len(result.scored) : result.scored[k].drive_id = d
    IN  <<result.scored[k].risk_bucket, result.scored[k].risk_score>>

\* C24: for an all-LOW raw batch with distinct device ids, every reordering
\* of the batch gives each device the same tier and the same probability.
C24_InputOrderIrrelevant ==
    Applied /\ AllLow(rcIn) /\ DistinctIds(rcIn)
    => \A f \in Reorderings(Len(rcIn)) :
          LET other == applyOperationalBuckets(Permuted(rcIn, f))
          IN  /\ other.bucketMode = rcOut.bucketMode
              /\ Len(other.scored) = Len(rcIn)
              /\ \A i \in 1..Len(rcIn) :
                    ResultFor(other, rcIn[i].drive_id)
                        = ResultFor(rcOut, rcIn[i].drive_id)

C24_Witness ==
    /\ Applied
    /\ AllLow(rcIn)
    /\ DistinctIds(rcIn)
    /\ Len(rcIn) = 5
    /\ rcIn[1].drive_id = 5
    /\ rcIn[1].risk_score = rcIn[2].risk_score
    /\ rcOut.bucketMode = "rank_fallback"
    /\ ResultFor(rcOut, 5) = <<"LOW", 390000>>
    /\ ResultFor(rcOut, 1) = <<"HIGH", 850000>>

\* C28: in both modes the output has the length of the input and holds the
\* same devices as often, and every output item is an input item with at
\* most its probability and tier replaced: device id, day, reasons, model
\* version and timestamp are kept, and so is the set of keys to persist.
C28_OnlyScoreAndTierChange ==
    Applied
    => LET out == rcOut.scored
       IN  /\ Len(out) = Len(rcIn)
           /\ \A k \in 1..Len(out) : out[k].scored_at \in 1..Len(rcIn)
           /\ {out[k].scored_at : k \in 1..Len(out)} = 1..Len(rcIn)
           /\ \A k \in 1..Len(out) :
                 out[k] = [RawOf(k) EXCEPT !.risk_score = out[k].risk_score,
                                           !.risk_bucket = out[k].risk_bucket]
           /\ \A d \in {rcIn[i].drive_id : i \in 1..Len(rcIn)} :
                 Cardinality({k \in 1..Len(out) : out[k].drive_id = d})
                     = Cardinality({i \in 1..Len(rcIn) : rcIn[i].drive_id = d})
           /\ {<<out[k].drive_id, out[k].model_version>> : k \in 1..Len(out)}
                 = {<<rcIn[i].drive_id, rcIn[i].model_version>> : i \in 1..Len(rcIn)}

C28_Witness ==
    /\ Applied
    /\ rcOut.bucketMode = "rank_fallback"
    /\ Len(rcIn) = 3
    /\ rcIn[1].drive_id = 2 /\ rcIn[2].drive_id = 2 /\ rcIn[3].drive_id = 1
    /\ rcIn[3].risk_score > rcIn[1].risk_score
    /\ rcOut.scored[1].scored_at = 3
    /\ rcOut.scored[1].top_reasons = ReasonsA
    /\ rcOut.scored[2].top_reasons = ReasonsB
    /\ rcOut.scored[1].risk_bucket = "HIGH"

----------------------------------------------------------------------------
(* Claims about the rolling statistics *)

MetricStat(metric, stat) ==
    feOut.vector[FeatureName(metric, stat)]

\* C21: on a history of one row every 7-day and 30-day mean is the row's
\* sample of the metric (0 when the row has none) and every deviation is 0;
\* on the empty history age_days and every mean and deviation are 0; a
\* metric without a valid sample has mean 0 and deviation 0.
C21_ShortHistories ==
    feOut.computed
    => /\ Len(feIn.rows) = 1
          => \A m \in SeqRange(RAW_METRICS) :
                LET sample == metricFromRow(feIn.rows[1], m)
                    expected == IF sample # Null THEN FE_UNITS * sample ELSE 0
                IN  /\ MetricStat(m, "mean_7d") = expected
                    /\ MetricStat(m, "mean_30d") = expected
                    /\ MetricStat(m, "std_30d") = 0
       /\ Len(feIn.rows) = 0
          => /\ feOut.vector[<<"age_days">>] = 0
             /\ \A m \in SeqRange(RAW_METRICS) :
                   /\ MetricStat(m, "mean_7d") = 0
                   /\ MetricStat(m, "mean_30d") = 0
                   /\ MetricStat(m, "std_30d") = 0
       /\ \A m \in SeqRange(RAW_METRICS) :
             (\A i \in 1..Len(feIn.rows) : metricFromRow(feIn.rows[i], m) = Null)
             => /\ MetricStat(m, "mean_7d") = 0
                /\ MetricStat(m, "mean_30d") = 0
                /\ MetricStat(m, "std_30d") = 0

C21_Witness ==
    /\ feOut.computed
    /\ Len(feIn.rows) = 1
    /\ feIn.rows[1].smart5 = 4
    /\ MetricStat("smart_5_raw", "mean_7d") = 4 * FE_UNITS
    /\ MetricStat("smart_5_raw", "mean_30d") = 4 * FE_UNITS
    /\ MetricStat("smart_5_raw", "std_30d") = 0
    /\ MetricStat("smart_188_raw", "mean_30d") = 0

\* the valid samples of a metric on the days from..target day
SamplesSince(metric, from) ==
    LET inWindow(row) == row.day >= from /\ row.day <= feIn.day
        rows == SelectSeq(feIn.rows, inWindow)
    IN  SelectSeq([i \in 1..Len(rows) |-> metricFromRow(rows[i], metric)],
                  IsNumber)

\* C25: the 7-day mean of a metric is the mean of its valid samples of the 7
\* days up to the target day, the 30-day mean and deviation those of the 30
\* days up to the target day; no older sample enters a window.
C25_WindowsAreDays ==
    feOut.computed
    => \A m \in SeqRange(RAW_METRICS) :
          /\ MetricStat(m, "mean_7d") = mean(SamplesSince(m, feIn.day - WINDOW_7))
          /\ MetricStat(m, "mean_30d") = mean(SamplesSince(m, feIn.day - WINDOW_30))
          /\ MetricStat(m, "std_30d") = stdDev(SamplesSince(m, feIn.day - WINDOW_30))

\* C27: the missing-metric indicator of the row generateFeaturesForDay writes
\* is true exactly when smart_197_raw has no valid sample in the lookback
\* window, whatever the values of the samples.
C27_MissingMeansNoSample ==
    feOut.computed /\ feIn.stored = "generated"
    => (feOut.row.missingSmart19730d
           <=> SamplesSince("smart_197_raw", feIn.day - LOOKBACK_DAYS) = <<>>)

----------------------------------------------------------------------------
(* Claims about the rows a run writes (checked on the runs of the API) *)

FirstTelemetryDay(driveId) ==
    SetMin({t[2] : t \in {u \in telemetry : u[1] = driveId}})

\* C26: age_days of a feature row is the number of days from the device's
\* first telemetry to the row's day, never negative, also when that first
\* telemetry is older than the lookback window.
C26_AgeSinceFirstTelemetry ==
    \A f \in featuresDaily :
        f.ageDays = Max(0, f.day - FirstTelemetryDay(f.driveId))

OtherDays(store, day) ==
    {row \in store : row.day # day}

\* C29: a run for target day D creates or changes prediction rows and
\* feature rows of day D only, whatever day the items of the response
\* carry; the rows of every other day stay as they are.
C29_WritesOnlyTargetDay ==
    [][\A r \in RunIds :
          pc[r] # "idle" /\ (predictions' # predictions \/ featuresDaily' # featuresDaily)
          => /\ OtherDays(predictions', targetDay[r]) = OtherDays(predictions, targetDay[r])
             /\ OtherDays(featuresDaily', targetDay[r])
                   = OtherDays(featuresDaily, targetDay[r])]_vars

\* the second run scored day 2, its response items carried day 3, and the
\* table holds rows of days 1 and 2 only
C29_Witness ==
    /\ pc[1] = "DONE"
    /\ targetDay[1] = 2
    /\ Len(scored[1]) > 0
    /\ scored[1][1].day = 3
    /\ \E p \in predictions : p.day = 1
    /\ \E p \in predictions : p.day = 2 /\ p.reasonCodes = scored[1][1].top_reasons
    /\ \A p \in predictions : p.day \in {1, 2}
    /\ \E f \in featuresDaily : f.day = 1

SumOfTiers(distribution) ==
    distribution["LOW"] + distribution["MED"] + distribution["HIGH"]

\* C30: when a run completes, storedPredictions of its summary and of its
\* audit record is the number of distinct prediction rows of the target day
\* that the run created or overwrote, and the tier counts of riskDistribution
\* add up to that number.
C30_StoredCountsDistinctRows ==
    [][\A r \in RunIds :
          pc[r] = "AUDIT" /\ pc'[r] = "DONE"
          => LET written == Cardinality({KeyOfScore(r, i) : i \in 1..Len(scored[r])})
                 record == auditLog'[Len(auditLog')]
             IN  /\ outcome'[r].storedPredictions = written
                 /\ record.storedPredictions = written
                 /\ SumOfTiers(record.riskDistribution) = written]_vars

----------------------------------------------------------------------------
(* Claims about the fallback scorer *)

\* C22: the fallback scorer returns one score per input item, in the order
\* of the items and for the same device and day; each probability lies in
\* [0, 1]; the tier is HIGH when the probability is at least 0.75, MED when
\* it is at least 0.40 and below 0.75, LOW otherwise; no remote call is made.
C22_FallbackProbabilityAndTier ==
    fbOut.computed
    => /\ Len(fbOut.scores) = Len(fbIn)
       /\ \A i \in 1..Len(fbIn) :
             LET score == fbOut.scores[i]
             IN  /\ score.drive_id = fbIn[i].drive_id
                 /\ score.day = fbIn[i].day
                 /\ score.risk_score >= 0
                 /\ score.risk_score <= 1000000
                 /\ score.risk_score >= 750000 => score.risk_bucket = "HIGH"
                 /\ score.risk_score >= 400000 /\ score.risk_score < 750000
                       => score.risk_bucket = "MED"
                 /\ score.risk_score < 400000 => score.risk_bucket = "LOW"
       /\ \A r \in RunIds : calls[r] = 0

C22_Witness ==
    /\ fbOut.computed
    /\ Len(fbIn) = 2
    /\ fbIn[1].drive_id = 2 /\ fbIn[2].drive_id = 1
    /\ fbOut.scores[1].drive_id = 2
    /\ fbOut.scores[1].risk_score = 1000000 /\ fbOut.scores[1].risk_bucket = "HIGH"
    /\ fbOut.scores[2].risk_score = 402514 /\ fbOut.scores[2].risk_bucket = "MED"

=============================================================================
